---- MODULE Spec2Model ----
(***************************************************************************)
(* A model of logview's block parser (core/parser.py) and of the           *)
(* navigation / filter / search state machine of LogViewer                  *)
(* (core/viewer.py).                                                        *)
(*                                                                         *)
(* Text is a sequence of one-character strings.  Indices kept in the state *)
(* are 0-based as in the Python code; At(s, i) reads element i of a        *)
(* Python list.                                                             *)
(***************************************************************************)
EXTENDS Integers, Sequences, FiniteSets, TLC

VARIABLES
    content,                 \* parser.content
    separator,               \* parser.separator
    blocks,                  \* parser.blocks
    current_block_index,     \* state.current_block_index
    filtered_indices,        \* state.filtered_indices
    current_filtered_index,  \* state.current_filtered_index
    filter_mode,             \* state.filter_mode
    search_term,             \* state.search_term
    top_line,                \* state.top_line
    message,                 \* state.message (a tag for the text)
    error,                   \* state.error
    focus_keyword,           \* state.focus_keyword
    focus_offset,            \* state.focus_offset
    lastOp,                  \* the LogViewer method called last
    lastArg,                 \* its block number, for goto_block (else 0)
    ret,                     \* what it returned: "True", "False" or "None"
    search_depth,            \* search_next / search_prev: the deepest nesting
                             \* of invocations in the last call (else 0)
    search_moves,            \* and the block moves the call made (else 0)
    preset_keywords,         \* CursesUI.preset_keywords
    hl_pattern,              \* a HighlightPattern
    hl_text,                 \* the text given to the highlighter
    hl_result,               \* what the highlighter returned
    full_view_mode,          \* state.full_view_mode
    show_line_numbers,       \* state.show_line_numbers
    highlight_enabled,       \* state.highlight_enabled
    command_buffer,          \* ui.command_buffer
    completion_matches,      \* ui.completion_matches
    completion_index,        \* ui.completion_index
    completion_prefix        \* ui.completion_prefix

vars == <<content, separator, blocks, current_block_index,
          filtered_indices, current_filtered_index, filter_mode, search_term,
          top_line, message, error, focus_keyword, focus_offset,
          lastOp, lastArg, ret, search_depth, search_moves,
          preset_keywords, hl_pattern, hl_text, hl_result,
          full_view_mode, show_line_numbers, highlight_enabled,
          command_buffer, completion_matches, completion_index,
          completion_prefix>>

----------------------------------------------------------------------------
(* Bounds of the model.                                                    *)

\* goto_block is called with block numbers in 0 .. MaxGoto
MaxGoto == 4
\* scroll_up / scroll_down / page_up / page_down move by 1 .. MaxScroll lines
MaxScroll == 1
\* increase_focus_offset is called while focus_offset is below this
MaxOffsetExplored == 2

----------------------------------------------------------------------------
(* The data the model runs on.                                             *)

NL == "\n"

\* The files on disk: name -> content.  "log" holds three blocks under the
\* grad separator (a / eGG, E / a / bGG, b) and one block of four lines
\* under the irc separator; "empty" is an empty file.
Files ==
    [log   |-> <<"a", NL, "e", "G", "G", "E", NL, "a", NL, "b", "G", "G", "b">>,
     empty |-> <<>>]

FileNames == DOMAIN Files
\* A path at which os.path.exists is false.
MissingFile == "missing"
\* No filename given to the LogViewer.
None == "None"

\* The terminal heights (stdscr.getmaxyx) of the session.
TermHeights == {6, 9}

\* The keywords a user types.
Terms == { <<>>, <<"B">>, <<"z">> }

\* The custom_separator arguments a caller passes.
CustomSeparators == { <<"I">> }

----------------------------------------------------------------------------
(* Python helpers.                                                         *)

At(s, i) == s[i + 1]

Max(a, b) == IF a >= b THEN a ELSE b
Min(a, b) == IF a <= b THEN a ELSE b

\* range(n) as a list
Range(n) == [i \in 1..n |-> i - 1]

\* str.lower on one character of the model's alphabet
LowerChar(c) ==
    CASE c = "B" -> "b"
      [] c = "E" -> "e"
      [] c = "G" -> "g"
      [] c = "I" -> "i"
      [] OTHER   -> c

Lower(s) == [i \in 1..Len(s) |-> LowerChar(s[i])]

\* needle in hay
In(needle, hay) ==
    \E i \in 1..(Len(hay) - Len(needle) + 1) :
        SubSeq(hay, i, i + Len(needle) - 1) = needle

\* keyword.lower() in text.lower()
Matches(keyword, text) == In(Lower(keyword), Lower(text))

\* text.split('\n')
RECURSIVE Split(_)
Split(text) ==
    IF \A i \in 1..Len(text) : text[i] # NL
    THEN <<text>>
    ELSE LET i == CHOOSE k \in 1..Len(text) :
                      text[k] = NL /\ \A j \in 1..(k - 1) : text[j] # NL
         IN  <<SubSeq(text, 1, i - 1)>> \o Split(SubSeq(text, i + 1, Len(text)))

----------------------------------------------------------------------------
(* utils/config.py and LogParser.                                          *)

DEFAULT_SEPARATORS ==
    [grad |-> <<"G", "G">>, irc |-> <<"I">>, custom |-> <<>>]

\* re.split(f"({re.escape(separator)})", content): the runs of content
\* between the leftmost non-overlapping occurrences of the separator,
\* alternating with the separator.  An empty pattern matches before every
\* character and at the end.
RECURSIVE re_split(_, _)
re_split(sep, text) ==
    IF sep = <<>>
    THEN IF text = <<>>
         THEN << <<>>, <<>>, <<>> >>
         ELSE << <<>>, <<>>, <<text[1]>> >>
              \o Tail(re_split(sep, Tail(text)))
    ELSE IF ~In(sep, text)
         THEN <<text>>
         ELSE LET i == CHOOSE k \in 1..Len(text) :
                          /\ SubSeq(text, k, k + Len(sep) - 1) = sep
                          /\ \A j \in 1..(k - 1) :
                                 SubSeq(text, j, j + Len(sep) - 1) # sep
              IN  <<SubSeq(text, 1, i - 1), sep>>
                  \o re_split(sep, SubSeq(text, i + Len(sep), Len(text)))

\* LogParser.parse: the new value of parser.blocks
\* Mutant of parse: the separator is not appended to the run before it.
parse_drops_separator(text, sep, oldBlocks) ==
    IF text = <<>>
    THEN oldBlocks
    ELSE LET parts == re_split(sep, text)
             n     == Len(parts)
             new   == [k \in 1..((n + 1) \div 2) |-> parts[2 * k - 1]]
         IN  IF new = <<>> THEN <<text>> ELSE new

parse(text, sep, oldBlocks) ==
    IF text = <<>>
    THEN oldBlocks
    ELSE LET parts == re_split(sep, text)
             n     == Len(parts)
             new   == [k \in 1..((n + 1) \div 2) |->
                          IF 2 * k <= n
                          THEN parts[2 * k - 1] \o parts[2 * k]
                          ELSE parts[2 * k - 1]]
         IN  IF new = <<>> THEN <<text>> ELSE new

\* LogParser.set_separator: the new value of parser.separator.
\* custom = <<>> stands for a custom_separator of None or "" (both falsy).
set_separator(separator_type, custom) ==
    IF separator_type = "custom" /\ custom # <<>>
    THEN custom
    ELSE IF separator_type \in DOMAIN DEFAULT_SEPARATORS
         THEN DEFAULT_SEPARATORS[separator_type]
         ELSE DEFAULT_SEPARATORS["grad"]

\* LogParser.get_block.  Its callers only test the result for truth, so
\* None (an invalid index) is the falsy NoBlock, like an empty block.
NoBlock == <<>>

get_block(bs, index) ==
    IF 0 <= index /\ index < Len(bs) THEN At(bs, index) ELSE NoBlock

\* LogParser.search_blocks
RECURSIVE search_blocks_from(_, _, _)
search_blocks_from(bs, keyword, i) ==
    IF i >= Len(bs)
    THEN <<>>
    ELSE (IF Matches(keyword, At(bs, i)) THEN <<i>> ELSE <<>>)
         \o search_blocks_from(bs, keyword, i + 1)

search_blocks(bs, keyword) ==
    IF keyword = <<>> \/ bs = <<>>
    THEN <<>>
    ELSE search_blocks_from(bs, keyword, 0)

\* LogParser.search_in_block: the matching line numbers, in line order
RECURSIVE matching_lines_from(_, _, _)
matching_lines_from(lines, keyword, i) ==
    IF i >= Len(lines)
    THEN <<>>
    ELSE (IF Matches(keyword, At(lines, i)) THEN <<i>> ELSE <<>>)
         \o matching_lines_from(lines, keyword, i + 1)

search_in_block(bs, block_index, keyword) ==
    IF keyword = <<>> \/ block_index < 0 \/ block_index >= Len(bs)
    THEN <<>>
    ELSE matching_lines_from(Split(At(bs, block_index)), keyword, 0)

----------------------------------------------------------------------------
(* LogViewer.  An operation is an operator from the viewer (a record of    *)
(* the parser's and the ViewerState's fields) to the viewer after the call *)
(* and the value returned.                                                  *)

Self ==
    [content                |-> content,
     separator              |-> separator,
     blocks                 |-> blocks,
     current_block_index    |-> current_block_index,
     filtered_indices       |-> filtered_indices,
     current_filtered_index |-> current_filtered_index,
     filter_mode            |-> filter_mode,
     search_term            |-> search_term,
     top_line               |-> top_line,
     message                |-> message,
     error                  |-> error,
     focus_keyword          |-> focus_keyword,
     focus_offset           |-> focus_offset,
     full_view_mode         |-> full_view_mode,
     show_line_numbers      |-> show_line_numbers,
     highlight_enabled      |-> highlight_enabled]

Result(s, r) == [s |-> s, ret |-> r]

\* ViewerState.__init__
INITIAL_FOCUS_OFFSET == 8

\* increase_focus_offset / decrease_focus_offset: the limits of focus_offset
MAX_FOCUS_OFFSET == 30
MIN_FOCUS_OFFSET == 1

\* Mutant of reset_state: the position is not reset.
reset_state_keeps_position(s) ==
    [s EXCEPT !.filter_mode = FALSE,
              !.filtered_indices = Range(Len(s.blocks)),
              !.current_filtered_index = 0,
              !.top_line = 0,
              !.message = "loaded",
              !.error = FALSE]

\* Mutant of reset_state: the filtered indices are not reset.
reset_state_keeps_filter(s) ==
    [s EXCEPT !.current_block_index = 0,
              !.filter_mode = FALSE,
              !.current_filtered_index = 0,
              !.top_line = 0,
              !.message = "loaded",
              !.error = FALSE]

\* Mutant of reset_state: the keyword focus is switched off as well.
reset_state_resets_focus(s) ==
    [s EXCEPT !.current_block_index = 0,
              !.filter_mode = FALSE,
              !.filtered_indices = Range(Len(s.blocks)),
              !.current_filtered_index = 0,
              !.top_line = 0,
              !.message = "loaded",
              !.error = FALSE,
              !.focus_keyword = FALSE]

reset_state(s) ==
    [s EXCEPT !.current_block_index = 0,
              !.filter_mode = FALSE,
              !.filtered_indices = Range(Len(s.blocks)),
              !.current_filtered_index = 0,
              !.top_line = 0,
              !.message = "loaded",
              !.error = FALSE]

\* LogViewer.load_file: LogParser.load_file, then parse and reset_state.
\* parser.filename, read only for the text of the message, is not modelled.
load_file(s, name) ==
    IF name \notin FileNames
    THEN Result(s, "False")
    ELSE LET s1 == [s EXCEPT !.content = Files[name]]
             s2 == [s1 EXCEPT !.blocks =
                                 parse(s1.content, s1.separator, s1.blocks)]
         IN  Result(reset_state(s2), "True")

reparse_with_separator(s, separator_type, custom) ==
    IF s.content = <<>>
    THEN Result([s EXCEPT !.message = "no_file", !.error = TRUE], "False")
    ELSE LET s1 == [s EXCEPT !.separator = set_separator(separator_type, custom)]
             s2 == [s1 EXCEPT !.blocks =
                                 parse(s1.content, s1.separator, s1.blocks)]
         IN  Result([reset_state(s2) EXCEPT !.message = "reparsed"], "True")

get_actual_index(s) ==
    IF s.filter_mode /\ s.filtered_indices # <<>>
    THEN At(s.filtered_indices, s.current_filtered_index)
    ELSE s.current_block_index

get_block_count(s) ==
    IF s.filter_mode /\ s.filtered_indices # <<>>
    THEN Len(s.filtered_indices)
    ELSE Len(s.blocks)

get_current_block(s) ==
    IF s.blocks = <<>>
    THEN NoBlock
    ELSE get_block(s.blocks, get_actual_index(s))

\* Mutant of focus_on_keyword: the matched line itself becomes the top line.
focus_on_keyword_at_match(s) ==
    IF s.search_term = <<>>
    THEN Result(s, "False")
    ELSE LET matches == search_in_block(s.blocks, get_actual_index(s),
                                        s.search_term)
         IN  IF matches = <<>>
             THEN Result(s, "False")
             ELSE Result([s EXCEPT !.top_line = matches[1]], "True")

focus_on_keyword(s) ==
    IF s.search_term = <<>>
    THEN Result(s, "False")
    ELSE LET matches == search_in_block(s.blocks, get_actual_index(s),
                                        s.search_term)
         IN  IF matches = <<>>
             THEN Result(s, "False")
             ELSE LET matched_line == matches[1]
                      new_top_line == Max(0, matched_line - s.focus_offset)
                      block        == get_current_block(s)
                      clamped      ==
                          IF block # NoBlock
                          THEN Min(new_top_line, Max(0, Len(Split(block)) - 1))
                          ELSE new_top_line
                  IN  Result([s EXCEPT !.top_line = clamped], "True")

\* Mutant of the move in filter mode: the keyword focus is applied whether
\* it is on or not.
move_filtered_always_focuses(s, i) ==
    LET s1 == [s EXCEPT !.current_filtered_index = i,
                        !.current_block_index = At(s.filtered_indices, i),
                        !.top_line = 0]
    IN  IF s1.search_term # <<>>
        THEN focus_on_keyword(s1).s
        ELSE s1

\* Mutant of move_filtered: only the position in the filtered list is moved.
move_filtered_keeps_block_index(s, i) ==
    LET s1 == [s EXCEPT !.current_filtered_index = i,
                        !.top_line = 0]
    IN  IF s1.focus_keyword /\ s1.search_term # <<>>
        THEN focus_on_keyword(s1).s
        ELSE s1

\* The move of next_block / prev_block / goto_block in filter mode: to
\* position i of filtered_indices, then the keyword focus when it is on.
move_filtered(s, i) ==
    LET s1 == [s EXCEPT !.current_filtered_index = i,
                        !.current_block_index = At(s.filtered_indices, i),
                        !.top_line = 0]
    IN  IF s1.focus_keyword /\ s1.search_term # <<>>
        THEN focus_on_keyword(s1).s
        ELSE s1

\* Mutant of next_block: past the last position it wraps to the first.
next_block_wraps(s) ==
    IF s.blocks = <<>>
    THEN Result(s, "False")
    ELSE IF s.filter_mode /\ s.filtered_indices # <<>>
    THEN Result(move_filtered(s, (s.current_filtered_index + 1)
                                     % Len(s.filtered_indices)), "True")
    ELSE IF ~s.filter_mode
    THEN Result([s EXCEPT !.current_block_index = (@ + 1) % Len(s.blocks),
                          !.top_line = 0], "True")
    ELSE Result(s, "False")

next_block(s) ==
    IF s.blocks = <<>>
    THEN Result(s, "False")
    ELSE IF s.filter_mode /\ s.filtered_indices # <<>>
    THEN IF s.current_filtered_index < Len(s.filtered_indices) - 1
         THEN Result(move_filtered(s, s.current_filtered_index + 1), "True")
         ELSE Result(s, "False")
    ELSE IF ~s.filter_mode /\ s.current_block_index < Len(s.blocks) - 1
    THEN Result([s EXCEPT !.current_block_index = @ + 1, !.top_line = 0],
                "True")
    ELSE Result(s, "False")

prev_block(s) ==
    IF s.blocks = <<>>
    THEN Result(s, "False")
    ELSE IF s.filter_mode /\ s.filtered_indices # <<>>
    THEN IF s.current_filtered_index > 0
         THEN Result(move_filtered(s, s.current_filtered_index - 1), "True")
         ELSE Result(s, "False")
    ELSE IF ~s.filter_mode /\ s.current_block_index > 0
    THEN Result([s EXCEPT !.current_block_index = @ - 1, !.top_line = 0],
                "True")
    ELSE Result(s, "False")

\* first_block / last_block: to position i of the active index space
move_to_end(s, i) ==
    LET s1 == IF s.filter_mode /\ s.filtered_indices # <<>>
              THEN [s EXCEPT !.current_filtered_index = i,
                             !.current_block_index = At(s.filtered_indices, i)]
              ELSE [s EXCEPT !.current_block_index = i]
        s2 == [s1 EXCEPT !.top_line = 0]
    IN  IF s2.filter_mode /\ s2.focus_keyword /\ s2.search_term # <<>>
        THEN focus_on_keyword(s2).s
        ELSE s2

first_block(s) ==
    IF s.blocks = <<>>
    THEN Result(s, "False")
    ELSE Result(move_to_end(s, 0), "True")

last_block(s) ==
    IF s.blocks = <<>>
    THEN Result(s, "False")
    ELSE Result(move_to_end(s, get_block_count(s) - 1), "True")

\* Mutant of goto_block: the block number is always an absolute one.
goto_block_ignores_filter(s, block_num) ==
    IF s.blocks = <<>> \/ block_num < 1
    THEN Result(s, "False")
    ELSE IF block_num <= Len(s.blocks)
         THEN Result([s EXCEPT !.current_block_index = block_num - 1,
                               !.top_line = 0], "True")
         ELSE Result([s EXCEPT !.message = "range_error", !.error = TRUE],
                     "False")

goto_block(s, block_num) ==
    IF s.blocks = <<>> \/ block_num < 1
    THEN Result(s, "False")
    ELSE IF s.filter_mode /\ s.filtered_indices # <<>>
    THEN IF block_num <= Len(s.filtered_indices)
         THEN Result(move_filtered(s, block_num - 1), "True")
         ELSE Result([s EXCEPT !.message = "range_error", !.error = TRUE],
                     "False")
    ELSE IF block_num <= Len(s.blocks)
         THEN Result([s EXCEPT !.current_block_index = block_num - 1,
                               !.top_line = 0], "True")
         ELSE Result([s EXCEPT !.message = "range_error", !.error = TRUE],
                     "False")

set_search_term(s, term) ==
    Result([s EXCEPT !.search_term = term], "None")

\* The lines i of `lines` with lo <= i <= hi that contain the search term
hits(s, lines, lo, hi) ==
    { i \in lo..hi : Matches(s.search_term, At(lines, i)) }

SetMin(S) == CHOOSE x \in S : \A y \in S : x <= y
SetMax(S) == CHOOSE x \in S : \A y \in S : x >= y

\* Mutant of search_next: the scan skips the line after topLine.
RECURSIVE search_next_skips_a_line(_)
search_next_skips_a_line(s) ==
    IF s.search_term = <<>> \/ s.blocks = <<>>
    THEN Result(s, "False")
    ELSE LET block == get_block(s.blocks, get_actual_index(s))
         IN  IF block = NoBlock
             THEN Result(s, "False")
             ELSE LET lines == Split(block)
                      found == hits(s, lines, s.top_line + 2, Len(lines) - 1)
                  IN  IF found # {}
                      THEN Result([s EXCEPT !.top_line = SetMin(found)], "True")
                      ELSE LET moved == next_block(s)
                           IN  IF moved.ret = "True"
                               THEN search_next_skips_a_line(moved.s)
                               ELSE Result([moved.s EXCEPT
                                               !.message = "last_match"],
                                           "False")

RECURSIVE search_next(_)
search_next(s) ==
    IF s.search_term = <<>> \/ s.blocks = <<>>
    THEN Result(s, "False")
    ELSE LET block == get_block(s.blocks, get_actual_index(s))
         IN  IF block = NoBlock
             THEN Result(s, "False")
             ELSE LET lines == Split(block)
                      found == hits(s, lines, s.top_line + 1, Len(lines) - 1)
                  IN  IF found # {}
                      THEN Result([s EXCEPT !.top_line = SetMin(found)], "True")
                      ELSE LET moved == next_block(s)
                           IN  IF moved.ret = "True"
                               THEN search_next(moved.s)
                               ELSE Result([moved.s EXCEPT
                                               !.message = "last_match"],
                                           "False")

\* lines[i] for i = top_line - 1 down to 0 raises IndexError when
\* top_line - 1 is past the last line.
RECURSIVE search_prev(_)
search_prev(s) ==
    IF s.search_term = <<>> \/ s.blocks = <<>>
    THEN Result(s, "False")
    ELSE LET block == get_block(s.blocks, get_actual_index(s))
         IN  IF block = NoBlock
             THEN Result(s, "False")
             ELSE LET lines == Split(block)
                  IN  IF s.top_line - 1 >= Len(lines)
                      THEN Result(s, "IndexError")
                      ELSE LET found == hits(s, lines, 0, s.top_line - 1)
                           IN  IF found # {}
                               THEN Result([s EXCEPT !.top_line = SetMax(found)],
                                           "True")
                               ELSE LET moved == prev_block(s)
                                        nb    == get_block(moved.s.blocks,
                                                     get_actual_index(moved.s))
                                        s1    == IF nb # NoBlock
                                                 THEN [moved.s EXCEPT !.top_line =
                                                          Len(Split(nb)) - 1]
                                                 ELSE moved.s
                                    IN  IF moved.ret = "True"
                                        THEN search_prev(s1)
                                        ELSE Result([moved.s EXCEPT
                                                !.message = "first_match"],
                                                "False")

\* The invocations of search_next that one call nests (the call itself and
\* the recursive calls inside it) and the successful next_block moves it
\* makes: search_next calls itself after every successful move.
\* Mutant of search_next_cost: the scan makes one more move after the last
\* reachable block, back to the first one, before it gives up.
RECURSIVE search_next_cost_wraps_once(_)
search_next_cost_wraps_once(s) ==
    IF s.search_term = <<>> \/ s.blocks = <<>>
    THEN [depth |-> 1, moves |-> 0]
    ELSE LET block == get_block(s.blocks, get_actual_index(s))
         IN  IF block = NoBlock
             THEN [depth |-> 1, moves |-> 0]
             ELSE LET lines == Split(block)
                      found == hits(s, lines, s.top_line + 1, Len(lines) - 1)
                      moved == next_block(s)
                  IN  IF found # {}
                      THEN [depth |-> 1, moves |-> 0]
                      ELSE IF moved.ret = "True"
                      THEN LET inner == search_next_cost_wraps_once(moved.s)
                           IN  [depth |-> inner.depth + 1,
                                moves |-> inner.moves + 1]
                      ELSE [depth |-> 2, moves |-> 1]

RECURSIVE search_next_cost(_)
search_next_cost(s) ==
    IF s.search_term = <<>> \/ s.blocks = <<>>
    THEN [depth |-> 1, moves |-> 0]
    ELSE LET block == get_block(s.blocks, get_actual_index(s))
         IN  IF block = NoBlock
             THEN [depth |-> 1, moves |-> 0]
             ELSE LET lines == Split(block)
                      found == hits(s, lines, s.top_line + 1, Len(lines) - 1)
                      moved == next_block(s)
                  IN  IF found = {} /\ moved.ret = "True"
                      THEN LET inner == search_next_cost(moved.s)
                           IN  [depth |-> inner.depth + 1,
                                moves |-> inner.moves + 1]
                      ELSE [depth |-> 1, moves |-> 0]

\* The same for search_prev and prev_block.
RECURSIVE search_prev_cost(_)
search_prev_cost(s) ==
    IF s.search_term = <<>> \/ s.blocks = <<>>
    THEN [depth |-> 1, moves |-> 0]
    ELSE LET block == get_block(s.blocks, get_actual_index(s))
         IN  IF block = NoBlock \/ s.top_line - 1 >= Len(Split(block))
             THEN [depth |-> 1, moves |-> 0]
             ELSE LET lines == Split(block)
                      found == hits(s, lines, 0, s.top_line - 1)
                      moved == prev_block(s)
                      nb    == get_block(moved.s.blocks,
                                         get_actual_index(moved.s))
                      s1    == IF nb # NoBlock
                               THEN [moved.s EXCEPT !.top_line =
                                        Len(Split(nb)) - 1]
                               ELSE moved.s
                  IN  IF found = {} /\ moved.ret = "True"
                      THEN LET inner == search_prev_cost(s1)
                           IN  [depth |-> inner.depth + 1,
                                moves |-> inner.moves + 1]
                      ELSE [depth |-> 1, moves |-> 0]

\* Mutant of filter_blocks: filter_mode is set before the result is tested.
filter_blocks_sets_mode_first(s) ==
    IF s.search_term = <<>> \/ s.blocks = <<>>
    THEN Result(s, "False")
    ELSE LET s1 == [s EXCEPT !.filtered_indices =
                                search_blocks(s.blocks, s.search_term),
                             !.filter_mode = TRUE]
         IN  IF s1.filtered_indices = <<>>
             THEN Result([s1 EXCEPT !.message = "no_matching_blocks",
                                    !.error = TRUE], "False")
             ELSE LET s2 == [s1 EXCEPT
                                !.current_filtered_index = 0,
                                !.current_block_index = At(s1.filtered_indices, 0),
                                !.top_line = 0]
                      s3 == IF s2.focus_keyword
                            THEN focus_on_keyword(s2).s
                            ELSE s2
                  IN  Result([s3 EXCEPT !.message = "found_blocks"], "True")

\* Mutant of filter_blocks: the keyword focus is not applied.
filter_blocks_without_focus(s) ==
    IF s.search_term = <<>> \/ s.blocks = <<>>
    THEN Result(s, "False")
    ELSE LET s1 == [s EXCEPT !.filtered_indices =
                                search_blocks(s.blocks, s.search_term)]
         IN  IF s1.filtered_indices = <<>>
             THEN Result([s1 EXCEPT !.message = "no_matching_blocks",
                                    !.error = TRUE], "False")
             ELSE Result([s1 EXCEPT
                             !.filter_mode = TRUE,
                             !.current_filtered_index = 0,
                             !.current_block_index = At(s1.filtered_indices, 0),
                             !.top_line = 0,
                             !.message = "found_blocks"], "True")

filter_blocks(s) ==
    IF s.search_term = <<>> \/ s.blocks = <<>>
    THEN Result(s, "False")
    ELSE LET s1 == [s EXCEPT !.filtered_indices =
                                search_blocks(s.blocks, s.search_term)]
         IN  IF s1.filtered_indices = <<>>
             THEN Result([s1 EXCEPT !.message = "no_matching_blocks",
                                    !.error = TRUE], "False")
             ELSE LET s2 == [s1 EXCEPT
                                !.filter_mode = TRUE,
                                !.current_filtered_index = 0,
                                !.current_block_index = At(s1.filtered_indices, 0),
                                !.top_line = 0]
                      s3 == IF s2.focus_keyword
                            THEN focus_on_keyword(s2).s
                            ELSE s2
                  IN  Result([s3 EXCEPT !.message = "found_blocks"], "True")

\* Mutant of clear_filter: the search term is cleared as well.
clear_filter_clears_term(s) ==
    Result([s EXCEPT !.filter_mode = FALSE,
                     !.filtered_indices = Range(Len(s.blocks)),
                     !.search_term = <<>>,
                     !.message = "filter_cleared"], "None")

\* Mutant of clear_filter: the view goes back to the first block.
clear_filter_resets_position(s) ==
    Result([s EXCEPT !.filter_mode = FALSE,
                     !.filtered_indices = Range(Len(s.blocks)),
                     !.current_block_index = 0,
                     !.top_line = 0,
                     !.message = "filter_cleared"], "None")

clear_filter(s) ==
    Result([s EXCEPT !.filter_mode = FALSE,
                     !.filtered_indices = Range(Len(s.blocks)),
                     !.message = "filter_cleared"], "None")

scroll_up(s, lines) ==
    IF s.top_line >= lines
    THEN Result([s EXCEPT !.top_line = @ - lines], "True")
    ELSE IF s.top_line > 0
    THEN Result([s EXCEPT !.top_line = 0], "True")
    ELSE Result(s, "False")

\* Mutant of scroll_down: the last line of the block is no limit.
scroll_down_past_end(s, lines) ==
    LET block == get_current_block(s)
    IN  IF block = NoBlock
        THEN Result(s, "False")
        ELSE Result([s EXCEPT !.top_line = @ + lines], "True")

scroll_down(s, lines) ==
    LET block == get_current_block(s)
    IN  IF block = NoBlock
        THEN Result(s, "False")
        ELSE LET total_lines == Len(Split(block))
             IN  IF s.top_line + lines < total_lines
                 THEN Result([s EXCEPT !.top_line = @ + lines], "True")
                 ELSE IF s.top_line < total_lines - 1
                 THEN Result([s EXCEPT !.top_line = total_lines - 1], "True")
                 ELSE Result(s, "False")

page_up(s, page_size) == scroll_up(s, page_size)

page_down(s, page_size) == scroll_down(s, page_size)

scroll_to_top(s) == Result([s EXCEPT !.top_line = 0], "None")

scroll_to_bottom(s) ==
    LET block == get_current_block(s)
    IN  IF block # NoBlock
        THEN Result([s EXCEPT !.top_line = Max(0, Len(Split(block)) - 1)],
                    "None")
        ELSE Result(s, "None")

toggle_keyword_focus(s) ==
    LET s1 == [s EXCEPT !.focus_keyword = ~@]
    IN  IF s1.focus_keyword
        THEN LET s2 == [s1 EXCEPT !.message = "focus_on"]
             IN  IF s2.filter_mode /\ s2.search_term # <<>>
                 THEN Result(focus_on_keyword(s2).s, "None")
                 ELSE Result(s2, "None")
        ELSE Result([s1 EXCEPT !.message = "focus_off"], "None")

\* Mutant of the change of the focus offset: the focus is applied again
\* whenever keyword focus is on, in filter mode or not.
set_focus_offset_without_filter(s, offset) ==
    LET s1 == [s EXCEPT !.focus_offset = offset, !.message = "focus_offset"]
    IN  IF s1.focus_keyword /\ s1.search_term # <<>>
        THEN focus_on_keyword(s1).s
        ELSE s1

\* increase_focus_offset / decrease_focus_offset after the limit test: the
\* offset becomes `offset` and the focus is applied again when it is active
set_focus_offset(s, offset) ==
    LET s1 == [s EXCEPT !.focus_offset = offset, !.message = "focus_offset"]
    IN  IF s1.focus_keyword /\ s1.filter_mode /\ s1.search_term # <<>>
        THEN focus_on_keyword(s1).s
        ELSE s1

\* Mutant of increase_focus_offset: no upper limit.
increase_focus_offset_unlimited(s) ==
    Result(set_focus_offset(s, s.focus_offset + 1), "None")

increase_focus_offset(s) ==
    IF s.focus_offset < MAX_FOCUS_OFFSET
    THEN Result(set_focus_offset(s, s.focus_offset + 1), "None")
    ELSE Result(s, "None")

decrease_focus_offset(s) ==
    IF s.focus_offset > MIN_FOCUS_OFFSET
    THEN Result(set_focus_offset(s, s.focus_offset - 1), "None")
    ELSE Result(s, "None")

----------------------------------------------------------------------------
(* The state machine: one action per LogViewer method.                     *)

\* ViewerState.__init__ and LogParser.__init__, before any file is loaded
Constructed(sep) ==
    [content                |-> <<>>,
     separator              |-> sep,
     blocks                 |-> <<>>,
     current_block_index    |-> 0,
     filtered_indices       |-> <<>>,
     current_filtered_index |-> 0,
     filter_mode            |-> FALSE,
     search_term            |-> <<>>,
     top_line               |-> 0,
     message                |-> "",
     error                  |-> FALSE,
     focus_keyword          |-> FALSE,
     focus_offset           |-> INITIAL_FOCUS_OFFSET,
     full_view_mode         |-> FALSE,
     show_line_numbers      |-> TRUE,
     highlight_enabled      |-> TRUE]

\* What a call of `op` on the viewer costs: nothing is counted for the
\* methods that do not search.
Cost(op) ==
    IF op = "search_next" THEN search_next_cost(Self)
    ELSE IF op = "search_prev" THEN search_prev_cost(Self)
    ELSE [depth |-> 0, moves |-> 0]

\* The renderer's keyword list and the highlighter are no part of the
\* viewer's navigation state: its methods leave them alone.
NoKeywords == <<>>
\* HighlightPattern.regex = None
NoRegex == [pattern |-> <<>>, flags |-> "None"]
NoPattern == [pattern |-> <<>>, is_regex |-> FALSE, case_sensitive |-> FALSE,
              regex |-> NoRegex]
NoText == <<>>
NoResult == <<>>

\* The viewer takes the value r.s and the call of `op` returned r.ret.
Becomes(r, op, arg) ==
    /\ content' = r.s.content
    /\ separator' = r.s.separator
    /\ blocks' = r.s.blocks
    /\ current_block_index' = r.s.current_block_index
    /\ filtered_indices' = r.s.filtered_indices
    /\ current_filtered_index' = r.s.current_filtered_index
    /\ filter_mode' = r.s.filter_mode
    /\ search_term' = r.s.search_term
    /\ top_line' = r.s.top_line
    /\ message' = r.s.message
    /\ error' = r.s.error
    /\ focus_keyword' = r.s.focus_keyword
    /\ focus_offset' = r.s.focus_offset
    /\ full_view_mode' = r.s.full_view_mode
    /\ show_line_numbers' = r.s.show_line_numbers
    /\ highlight_enabled' = r.s.highlight_enabled
    /\ lastOp' = op
    /\ lastArg' = arg
    /\ ret' = r.ret
    /\ search_depth' = Cost(op).depth
    /\ search_moves' = Cost(op).moves
    /\ UNCHANGED <<preset_keywords, hl_pattern, hl_text, hl_result,
                   command_buffer, completion_matches, completion_index,
                   completion_prefix>>

\* CursesUI._setup_windows: the focus offset follows the height of the text
\* window.
setup_windows(s, height) ==
    LET text_height == height - 3
    IN  [s EXCEPT !.focus_offset = Max(1, text_height \div 3)]

\* The session as the main loop starts (cli.main): LogViewer(filename,
\* separator) with the separator given or the grad preset and the file
\* loaded when a name is given, then CursesUI._main's _setup_windows.
Init ==
    \E name \in FileNames \cup {None},
       sep \in {DEFAULT_SEPARATORS["grad"], DEFAULT_SEPARATORS["irc"]},
       height \in TermHeights :
        LET s0 == Constructed(sep)
            s1 == IF name # None THEN load_file(s0, name).s ELSE s0
            r  == Result(setup_windows(s1, height), "None")
        IN  /\ content = r.s.content
            /\ separator = r.s.separator
            /\ blocks = r.s.blocks
            /\ current_block_index = r.s.current_block_index
            /\ filtered_indices = r.s.filtered_indices
            /\ current_filtered_index = r.s.current_filtered_index
            /\ filter_mode = r.s.filter_mode
            /\ search_term = r.s.search_term
            /\ top_line = r.s.top_line
            /\ message = r.s.message
            /\ error = r.s.error
            /\ focus_keyword = r.s.focus_keyword
            /\ focus_offset = r.s.focus_offset
            /\ full_view_mode = r.s.full_view_mode
            /\ show_line_numbers = r.s.show_line_numbers
            /\ highlight_enabled = r.s.highlight_enabled
            /\ lastOp = "init"
            /\ lastArg = 0
            /\ ret = "None"
            /\ search_depth = 0
            /\ search_moves = 0
            /\ preset_keywords = NoKeywords
            /\ hl_pattern = NoPattern
            /\ hl_text = NoText
            /\ hl_result = NoResult
            /\ command_buffer = <<>>
            /\ completion_matches = <<>>
            /\ completion_index = 0
            /\ completion_prefix = <<>>

LoadFile ==
    \E name \in FileNames \cup {MissingFile} :
        Becomes(load_file(Self, name), "load_file", 0)

Reparse ==
    \E separator_type \in {"grad", "irc", "custom"}, custom \in CustomSeparators :
        Becomes(reparse_with_separator(Self, separator_type, custom),
                "reparse_with_separator", 0)

NextBlock == Becomes(next_block(Self), "next_block", 0)

PrevBlock == Becomes(prev_block(Self), "prev_block", 0)

FirstBlock == Becomes(first_block(Self), "first_block", 0)

LastBlock == Becomes(last_block(Self), "last_block", 0)

GotoBlock ==
    \E n \in 0..MaxGoto :
        Becomes(goto_block(Self, n), "goto_block", n)

SetSearchTerm ==
    \E term \in Terms :
        Becomes(set_search_term(Self, term), "set_search_term", 0)

SearchNext == Becomes(search_next(Self), "search_next", 0)

SearchPrev == Becomes(search_prev(Self), "search_prev", 0)

FilterBlocks == Becomes(filter_blocks(Self), "filter_blocks", 0)

ClearFilter == Becomes(clear_filter(Self), "clear_filter", 0)

ScrollUp ==
    \E n \in 1..MaxScroll : Becomes(scroll_up(Self, n), "scroll_up", 0)

ScrollDown ==
    \E n \in 1..MaxScroll : Becomes(scroll_down(Self, n), "scroll_down", 0)

ScrollToTop == Becomes(scroll_to_top(Self), "scroll_to_top", 0)

ScrollToBottom == Becomes(scroll_to_bottom(Self), "scroll_to_bottom", 0)

ToggleKeywordFocus ==
    Becomes(toggle_keyword_focus(Self), "toggle_keyword_focus", 0)

IncreaseFocusOffset ==
    /\ focus_offset < MaxOffsetExplored
    /\ Becomes(increase_focus_offset(Self), "increase_focus_offset", 0)

DecreaseFocusOffset ==
    Becomes(decrease_focus_offset(Self), "decrease_focus_offset", 0)

Next ==
    \/ LoadFile
    \/ Reparse
    \/ NextBlock
    \/ PrevBlock
    \/ FirstBlock
    \/ LastBlock
    \/ GotoBlock
    \/ SetSearchTerm
    \/ SearchNext
    \/ SearchPrev
    \/ FilterBlocks
    \/ ClearFilter
    \/ ScrollUp
    \/ ScrollDown
    \/ ScrollToTop
    \/ ScrollToBottom
    \/ ToggleKeywordFocus
    \/ IncreaseFocusOffset
    \/ DecreaseFocusOffset

Spec == Init /\ [][Next]_vars

----------------------------------------------------------------------------
(* The focus offset over a session of the curses renderer: the commands of *)
(* CursesUI that write state.focus_offset, with the methods of LogViewer    *)
(* that read or step it, on the "log" file under the grad separator.       *)

\* The terminal heights a resize can give: those of the session's start and
\* a terminal of 96 rows.
ResizeHeights == TermHeights \cup {96}

\* LogViewer.set_message
set_message(s, msg, err) == [s EXCEPT !.message = msg, !.error = err]

\* CursesUI.filter_blocks, the 'F' key, on a terminal of `height` rows
ui_filter_blocks(s, height) ==
    IF s.search_term = <<>>
    THEN Result(set_message(s, "search_term_needed", TRUE), "None")
    ELSE LET r == filter_blocks(s)
         IN  IF r.ret # "True"
             THEN Result(set_message(r.s, "no_matching_blocks", TRUE), "None")
             ELSE IF ~r.s.focus_keyword
             THEN LET s1 == setup_windows(r.s, height)
                      s2 == toggle_keyword_focus(s1).s
                  IN  Result(set_message(s2, "filter_and_focus_on", FALSE),
                             "None")
             ELSE Result(r.s, "None")

\* CursesUI.toggle_keyword_focus, the 'O' key
ui_toggle_keyword_focus(s, height) ==
    toggle_keyword_focus(setup_windows(s, height))

\* Mutant of escape: one Escape clears the filter and the search term.
escape_clears_both(s) ==
    IF s.filter_mode \/ s.search_term # <<>>
    THEN Result(set_message(set_search_term(clear_filter(s).s, <<>>).s,
                            "search_cleared", FALSE), "None")
    ELSE Result(s, "None")

\* CursesUI._main_loop on the Escape key (27), outside the help and the
\* command mode
escape(s) ==
    IF s.filter_mode
    THEN Result(clear_filter(s).s, "None")
    ELSE IF s.search_term # <<>>
    THEN Result(set_message(set_search_term(s, <<>>).s,
                            "search_cleared", FALSE), "None")
    ELSE Result(s, "None")

\* The LogViewer as constructed on the "log" file, before any window exists
FocusInit ==
    LET s == load_file(Constructed(DEFAULT_SEPARATORS["grad"]), "log").s
    IN  /\ content = s.content
        /\ separator = s.separator
        /\ blocks = s.blocks
        /\ current_block_index = s.current_block_index
        /\ filtered_indices = s.filtered_indices
        /\ current_filtered_index = s.current_filtered_index
        /\ filter_mode = s.filter_mode
        /\ search_term = s.search_term
        /\ top_line = s.top_line
        /\ message = s.message
        /\ error = s.error
        /\ focus_keyword = s.focus_keyword
        /\ focus_offset = s.focus_offset
        /\ full_view_mode = s.full_view_mode
        /\ show_line_numbers = s.show_line_numbers
        /\ highlight_enabled = s.highlight_enabled
        /\ lastOp = "init"
        /\ lastArg = 0
        /\ ret = "None"
        /\ search_depth = 0
        /\ search_moves = 0
        /\ preset_keywords = NoKeywords
        /\ hl_pattern = NoPattern
        /\ hl_text = NoText
        /\ hl_result = NoResult
        /\ command_buffer = <<>>
        /\ completion_matches = <<>>
        /\ completion_index = 0
        /\ completion_prefix = <<>>

\* CursesUI._setup_windows at the start and CursesUI._resize_windows on
\* KEY_RESIZE
Resize ==
    \E height \in ResizeHeights :
        Becomes(Result(setup_windows(Self, height), "None"),
                "setup_windows", 0)

UIFilterBlocks ==
    \E height \in ResizeHeights :
        Becomes(ui_filter_blocks(Self, height), "ui_filter_blocks", 0)

UIToggleKeywordFocus ==
    \E height \in ResizeHeights :
        Becomes(ui_toggle_keyword_focus(Self, height),
                "ui_toggle_keyword_focus", 0)

\* LogViewer.increase_focus_offset, at any offset
IncreaseFocusOffsetAny ==
    Becomes(increase_focus_offset(Self), "increase_focus_offset", 0)

\* LogViewer._focus_on_keyword, the keyword-focus relocation on its own
FocusOnKeyword == Becomes(focus_on_keyword(Self), "focus_on_keyword", 0)

Escape == Becomes(escape(Self), "escape", 0)

FocusNext ==
    \/ Resize
    \/ UIFilterBlocks
    \/ UIToggleKeywordFocus
    \/ IncreaseFocusOffsetAny
    \/ DecreaseFocusOffset
    \/ FocusOnKeyword
    \/ SetSearchTerm
    \/ ClearFilter
    \/ NextBlock
    \/ PrevBlock
    \/ ScrollDown
    \/ Escape

FocusSpec == FocusInit /\ [][FocusNext]_vars

----------------------------------------------------------------------------
(* The display toggles and save_current_block, with the operations that    *)
(* report failures.                                                        *)

toggle_full_view(s) ==
    LET s1 == [s EXCEPT !.full_view_mode = ~@, !.top_line = 0]
    IN  IF s1.full_view_mode
        THEN Result([s1 EXCEPT !.message = "full_view"], "None")
        ELSE Result([s1 EXCEPT !.message = "block_view"], "None")

\* Mutant of toggle_line_numbers: the view goes back to the top of the block.
toggle_line_numbers_resets_top_line(s) ==
    LET s1 == [s EXCEPT !.show_line_numbers = ~@, !.top_line = 0]
    IN  IF s1.show_line_numbers
        THEN Result([s1 EXCEPT !.message = "line_numbers_on"], "None")
        ELSE Result([s1 EXCEPT !.message = "line_numbers_off"], "None")

toggle_line_numbers(s) ==
    LET s1 == [s EXCEPT !.show_line_numbers = ~@]
    IN  IF s1.show_line_numbers
        THEN Result([s1 EXCEPT !.message = "line_numbers_on"], "None")
        ELSE Result([s1 EXCEPT !.message = "line_numbers_off"], "None")

toggle_highlight(s) ==
    LET s1 == [s EXCEPT !.highlight_enabled = ~@]
    IN  IF s1.highlight_enabled
        THEN Result([s1 EXCEPT !.message = "highlight_on"], "None")
        ELSE Result([s1 EXCEPT !.message = "highlight_off"], "None")

\* LogViewer.save_current_block; `written` is whether the file could be
\* opened and written.
save_current_block(s, written) ==
    IF s.blocks = <<>>
    THEN Result([s EXCEPT !.message = "no_data", !.error = TRUE], "False")
    ELSE IF get_block(s.blocks, get_actual_index(s)) = NoBlock
    THEN Result(s, "False")
    ELSE IF written
    THEN Result([s EXCEPT !.message = "saved"], "True")
    ELSE Result([s EXCEPT !.message = "save_error", !.error = TRUE], "False")

ToggleFullView == Becomes(toggle_full_view(Self), "toggle_full_view", 0)

ToggleLineNumbers ==
    Becomes(toggle_line_numbers(Self), "toggle_line_numbers", 0)

ToggleHighlight == Becomes(toggle_highlight(Self), "toggle_highlight", 0)

SaveCurrentBlock ==
    \E written \in BOOLEAN :
        Becomes(save_current_block(Self, written), "save_current_block", 0)

DisplayNext ==
    \/ ToggleFullView
    \/ ToggleLineNumbers
    \/ ToggleHighlight
    \/ SaveCurrentBlock
    \/ GotoBlock
    \/ SetSearchTerm
    \/ FilterBlocks
    \/ ClearFilter
    \/ ScrollDown

\* The sessions of Init with the grad preset on a terminal of the lowest
\* height, with the log file or without a file
DisplayInit ==
    /\ Init
    /\ separator = DEFAULT_SEPARATORS["grad"]
    /\ focus_offset = MIN_FOCUS_OFFSET
    /\ blocks # <<>> \/ message = ""

DisplaySpec == DisplayInit /\ [][DisplayNext]_vars

----------------------------------------------------------------------------
(* LogParser.parse as a function of the content and the separator: the     *)
(* parser is given a content and a separator and parse is called once.     *)

\* The contents are the texts of at most MaxContentLen characters over
\* ParseAlphabet, and the example of the parser's documentation.
MaxContentLen == 5

ParseAlphabet == {"a", "G", NL}

ExampleContent ==
    <<"A", "A", "A", NL, "-", "-", "-", NL, "B", "B", "B", NL,
      "-", "-", "-", NL, "C", "C", "C">>

ExampleSeparator == <<"-", "-", "-">>

ParseContents ==
    UNION { [1..n -> ParseAlphabet] : n \in 0..MaxContentLen }

ParseSeparators == { <<"G">>, <<"G", "G">>, <<"a", "G">>, <<NL>> }

\* LogParser(filename, separator) with its content read, before parse
ParseInit ==
    \E text \in ParseContents \cup {ExampleContent},
       sep \in ParseSeparators \cup {ExampleSeparator} :
        /\ (text = ExampleContent) <=> (sep = ExampleSeparator)
        /\ content = text
        /\ separator = sep
        /\ blocks = <<>>
        /\ current_block_index = 0
        /\ filtered_indices = <<>>
        /\ current_filtered_index = 0
        /\ filter_mode = FALSE
        /\ search_term = <<>>
        /\ top_line = 0
        /\ message = ""
        /\ error = FALSE
        /\ focus_keyword = FALSE
        /\ focus_offset = INITIAL_FOCUS_OFFSET
        /\ full_view_mode = FALSE
        /\ show_line_numbers = TRUE
        /\ highlight_enabled = TRUE
        /\ lastOp = "init"
        /\ lastArg = 0
        /\ ret = "None"
        /\ search_depth = 0
        /\ search_moves = 0
        /\ preset_keywords = NoKeywords
        /\ hl_pattern = NoPattern
        /\ hl_text = NoText
        /\ hl_result = NoResult
        /\ command_buffer = <<>>
        /\ completion_matches = <<>>
        /\ completion_index = 0
        /\ completion_prefix = <<>>

\* LogParser.parse
ParseContent ==
    Becomes(Result([Self EXCEPT !.blocks = parse(content, separator, blocks)],
                   "None"),
            "parse", 0)

ParseNext == ParseContent

ParseSpec == ParseInit /\ [][ParseNext]_vars

----------------------------------------------------------------------------
(* core/highlighter.py: HighlightPattern and Highlighter.find_matches, as  *)
(* functions of the pattern and the text.  A character is a one-character  *)
(* string; "U0130" stands for the one character U+0130 (capital I with dot *)
(* above), whose str.lower() is the two characters "i", U+0307.            *)

\* The texts given to find_matches have at most MaxTextLen characters.
MaxTextLen == 3

UpperCase == <<"A", "B", "C", "D", "E", "F", "G", "H", "I", "J", "K", "L", "M",
               "N", "O", "P", "Q", "R", "S", "T", "U", "V", "W", "X", "Y", "Z">>
LowerCase == <<"a", "b", "c", "d", "e", "f", "g", "h", "i", "j", "k", "l", "m",
               "n", "o", "p", "q", "r", "s", "t", "u", "v", "w", "x", "y", "z">>

\* str.lower() of one character: a string of one or two characters
lower_char(c) ==
    IF \E i \in 1..Len(UpperCase) : UpperCase[i] = c
    THEN <<LowerCase[CHOOSE i \in 1..Len(UpperCase) : UpperCase[i] = c]>>
    ELSE IF c = "U0130"
    THEN <<"i", "U0307">>
    ELSE <<c>>

\* str.lower()
RECURSIVE str_lower(_)
str_lower(text) ==
    IF text = <<>>
    THEN <<>>
    ELSE lower_char(Head(text)) \o str_lower(Tail(text))

\* str.find(sub, start): the lowest index from `start` on at which sub
\* occurs in target, or -1
str_find(target, sub, start) ==
    LET at == { i \in start..(Len(target) - Len(sub)) :
                    SubSeq(target, i + 1, i + Len(sub)) = sub }
    IN  IF at = {} THEN 0 - 1 ELSE SetMin(at)

\* The patterns given to HighlightPattern: "aa", "A", "a(" and
\* "a{4294967296}"
OverflowPattern ==
    <<"a", "{", "4", "2", "9", "4", "9", "6", "7", "2", "9", "6", "}">>

HlPatterns == { <<"a", "a">>, <<"A">>, <<"a", "(">>, OverflowPattern }

HlAlphabet == {"a", "A", "(", "U0130"}

HlTexts == UNION { [1..n -> HlAlphabet] : n \in 0..MaxTextLen }

\* re.compile(pattern, flags) on the patterns of HlPatterns: an unbalanced
\* parenthesis raises re.error, a repetition count of 2^32 raises
\* OverflowError, the other patterns compile.
re_compile(pattern, flags) ==
    IF pattern = OverflowPattern
    THEN [raised |-> "OverflowError", regex |-> NoRegex]
    ELSE IF \E i \in 1..Len(pattern) : pattern[i] = "("
    THEN [raised |-> "re.error", regex |-> NoRegex]
    ELSE [raised |-> "None", regex |-> [pattern |-> pattern, flags |-> flags]]

\* HighlightPattern.__init__: the object constructed, or the exception that
\* leaves it
HighlightPattern(pattern, is_regex, case_sensitive) ==
    LET flags    == IF case_sensitive THEN "0" ELSE "IGNORECASE"
        compiled == re_compile(pattern, flags)
    IN  IF ~is_regex
        THEN Result([pattern |-> pattern, is_regex |-> FALSE,
                     case_sensitive |-> case_sensitive, regex |-> NoRegex],
                    "None")
        ELSE IF compiled.raised = "re.error"
        THEN Result([pattern |-> pattern, is_regex |-> FALSE,
                     case_sensitive |-> case_sensitive, regex |-> NoRegex],
                    "None")
        ELSE IF compiled.raised # "None"
        THEN Result(NoPattern, compiled.raised)
        ELSE Result([pattern |-> pattern, is_regex |-> TRUE,
                     case_sensitive |-> case_sensitive,
                     regex |-> compiled.regex],
                    "None")

\* regex.finditer(text) for a compiled pattern without metacharacters: its
\* non-overlapping occurrences from `start` on, leftmost first, compared
\* character by character and without case under IGNORECASE
RECURSIVE finditer(_, _, _)
finditer(regex, text, start) ==
    LET n     == Len(regex.pattern)
        same(a, b) == IF regex.flags = "IGNORECASE"
                      THEN lower_char(a) = lower_char(b)
                      ELSE a = b
        at    == { i \in start..(Len(text) - n) :
                       \A k \in 1..n : same(text[i + k], regex.pattern[k]) }
    IN  IF at = {}
        THEN <<>>
        ELSE << <<SetMin(at), SetMin(at) + n>> >>
             \o finditer(regex, text, SetMin(at) + n)

\* The while loop of find_matches for a literal pattern
RECURSIVE literal_matches(_, _, _)
literal_matches(target_text, search_text, start) ==
    LET found == str_find(target_text, search_text, start)
    IN  IF found = 0 - 1
        THEN <<>>
        ELSE << <<found, found + Len(search_text)>> >>
             \o literal_matches(target_text, search_text, found + 1)

\* Highlighter.find_matches
find_matches(text, pattern) ==
    IF pattern.is_regex /\ pattern.regex # NoRegex
    THEN finditer(pattern.regex, text, 0)
    ELSE IF pattern.case_sensitive
    THEN literal_matches(text, pattern.pattern, 0)
    ELSE literal_matches(str_lower(text), str_lower(pattern.pattern), 0)

\* A Highlighter with no pattern of interest yet
HighlightInit ==
    LET s == Constructed(DEFAULT_SEPARATORS["grad"])
    IN  /\ content = s.content
        /\ separator = s.separator
        /\ blocks = s.blocks
        /\ current_block_index = s.current_block_index
        /\ filtered_indices = s.filtered_indices
        /\ current_filtered_index = s.current_filtered_index
        /\ filter_mode = s.filter_mode
        /\ search_term = s.search_term
        /\ top_line = s.top_line
        /\ message = s.message
        /\ error = s.error
        /\ focus_keyword = s.focus_keyword
        /\ focus_offset = s.focus_offset
        /\ full_view_mode = s.full_view_mode
        /\ show_line_numbers = s.show_line_numbers
        /\ highlight_enabled = s.highlight_enabled
        /\ lastOp = "init"
        /\ lastArg = 0
        /\ ret = "None"
        /\ search_depth = 0
        /\ search_moves = 0
        /\ preset_keywords = NoKeywords
        /\ hl_pattern = NoPattern
        /\ hl_text = NoText
        /\ hl_result = NoResult
        /\ command_buffer = <<>>
        /\ completion_matches = <<>>
        /\ completion_index = 0
        /\ completion_prefix = <<>>

\* A call on the highlighter: the viewer's state is not involved.
HighlighterCall(op, arg, r) ==
    /\ lastOp' = op
    /\ lastArg' = arg
    /\ ret' = r
    /\ UNCHANGED <<content, separator, blocks, current_block_index,
                   filtered_indices, current_filtered_index, filter_mode,
                   search_term, top_line, message, error, focus_keyword,
                   focus_offset, search_depth, search_moves, preset_keywords,
                   full_view_mode, show_line_numbers, highlight_enabled,
                   command_buffer, completion_matches, completion_index,
                   completion_prefix>>

\* HighlightPattern(pattern, style, whole_line, is_regex, case_sensitive);
\* when the constructor raises there is no new object.
NewPattern ==
    \E pattern \in HlPatterns, is_regex \in BOOLEAN, case_sensitive \in BOOLEAN :
        LET r == HighlightPattern(pattern, is_regex, case_sensitive)
        IN  /\ hl_pattern' = IF r.ret = "None" THEN r.s ELSE hl_pattern
            /\ UNCHANGED <<hl_text, hl_result>>
            /\ HighlighterCall("HighlightPattern",
                               [pattern |-> pattern, is_regex |-> is_regex,
                                case_sensitive |-> case_sensitive],
                               r.ret)

\* Highlighter.find_matches(text, pattern) on the pattern constructed last
FindMatches ==
    \E text \in HlTexts :
        /\ hl_pattern # NoPattern
        /\ hl_text' = text
        /\ hl_result' = find_matches(text, hl_pattern)
        /\ UNCHANGED hl_pattern
        /\ HighlighterCall("find_matches", 0, "None")

----------------------------------------------------------------------------
(* ui/curses_ui.py: CursesUI.highlight_line, as a function of the line: the *)
(* addstr calls it makes, each with the index in the line at which it       *)
(* writes, the text written and the colour pair (0: none given).  A         *)
(* character outside ASCII is written "Uxxxx".                              *)

\* The lines given to highlight_line are made of at most MaxLineTokens of
\* the LineTokens.
MaxLineTokens == 3

\* curses.init_pair: the colour pairs of the four categories
ERROR_PAIR == 4
WARNING_PAIR == 5
SUCCESS_PAIR == 6
KEYWORD_PAIR == 7


\* The keywords of the first loop of highlight_line
error_keywords ==
    << <<"e", "r", "r", "o", "r">>,
       <<"f", "a", "i", "l", "e", "d">>,
       <<"U9519", "U8BEF">>,
       <<"U5931", "U8D25">> >>

\* The keywords of the second loop
warning_keywords ==
    << <<"w", "a", "r", "n", "i", "n", "g">>,
       <<"U8B66", "U544A">> >>

\* The keywords of the third loop
success_keywords ==
    << <<"s", "c", "f", " ", "d", "o", "n", "e">>,
       <<"o", "p", "t", "i", "m", "i", "z", "a", "t", "i", "o", "n", " ", "c", "o", "m", "p", "l", "e", "t", "e", "d">>,
       <<"c", "o", "n", "v", "e", "r", "g", "e", "d">> >>

\* Highlighter.COMMON_KEYWORDS
COMMON_KEYWORDS ==
    << <<"S", "C", "F", " ", "D", "o", "n", "e">>,
       <<"E", "x", "c", "i", "t", "e", "d", " ", "S", "t", "a", "t", "e", " ", " ", " ", "1">>,
       <<"O", "p", "t", "i", "m", "i", "z", "a", "t", "i", "o", "n", " ", "c", "o", "m", "p", "l", "e", "t", "e", "d">>,
       <<"n", "o", "r", "m", "a", "l", " ", "c", "o", "o", "r", "d", "i", "n", "a", "t", "e", "s">>,
       <<"O", "r", "b", "i", "t", "a", "l", " ", "s", "y", "m", "m", "e", "t", "r", "i", "e", "s">>,
       <<"M", "u", "l", "l", "i", "k", "e", "n", " ", "c", "h", "a", "r", "g", "e", "s">>,
       <<"A", "P", "T", " ", "c", "h", "a", "r", "g", "e", "s", ":">>,
       <<"C", "o", "n", "v", "e", "r", "g", "e", "d", "?">>,
       <<"S", "t", "a", "n", "d", "a", "r", "d", " ", "o", "r", "i", "e", "n", "t", "a", "t", "i", "o", "n">>,
       <<"I", "n", "p", "u", "t", " ", "o", "r", "i", "e", "n", "t", "a", "t", "i", "o", "n">>,
       <<"F", "r", "e", "q", "u", "e", "n", "c", "y">>,
       <<"F", "a", "i", "l", "e", "d">>,
       <<"d", "i", "p", "o", "l", "e", " ", "m", "o", "m", "e", "n", "t", "s">>,
       <<"P", "o", "i", "n", "t", " ", "N", "u", "m", "b", "e", "r", ":">> >>

\* "Error", "WARNING", "Converged?", "Frequency", U+0130 and a space
LineTokens ==
    << <<"E", "r", "r", "o", "r">>,
       <<"W", "A", "R", "N", "I", "N", "G">>,
       <<"C", "o", "n", "v", "e", "r", "g", "e", "d", "?">>,
       <<"F", "r", "e", "q", "u", "e", "n", "c", "y">>,
       <<"U0130">>,
       <<" ">> >>

\* The concatenation of the tokens
RECURSIVE LineOf(_)
LineOf(tokens) ==
    IF tokens = <<>>
    THEN <<>>
    ELSE LineTokens[Head(tokens)] \o LineOf(Tail(tokens))

HlLines ==
    { LineOf(ts) : ts \in UNION { [1..n -> 1..Len(LineTokens)] :
                                      n \in 0..MaxLineTokens } }

\* line_text[a:b]
slice(line_text, a, b) ==
    SubSeq(line_text, Min(a, Len(line_text)) + 1, Min(b, Len(line_text)))

\* text_win.addstr(line_num, start_pos + pos, text, curses.color_pair(pair))
addstr(pos, text, pair) == [pos |-> pos, text |-> text, color_pair |-> pair]

\* The keywords of a loop found in the lowered line, by their place in the
\* loop's list
keywords_in(keywords, line_text_lower) ==
    { k \in 1..Len(keywords) :
          str_find(line_text_lower, str_lower(keywords[k]), 0) # 0 - 1 }

\* CursesUI.highlight_line: the addstr calls made.  The plain addstr of the
\* same line at the same place has just succeeded in draw_block_view, so
\* the whole-line addstr calls succeed as well.
highlight_line(line_text) ==
    LET line_text_lower == str_lower(line_text)
        common == keywords_in(COMMON_KEYWORDS, line_text_lower)
        keyword == COMMON_KEYWORDS[SetMin(common)]
        start_idx == str_find(line_text_lower, str_lower(keyword), 0)
        end_idx == start_idx + Len(keyword)
    IN  IF keywords_in(error_keywords, line_text_lower) # {}
        THEN <<addstr(0, line_text, ERROR_PAIR)>>
        ELSE IF keywords_in(warning_keywords, line_text_lower) # {}
        THEN <<addstr(0, line_text, WARNING_PAIR)>>
        ELSE IF keywords_in(success_keywords, line_text_lower) # {}
        THEN <<addstr(0, line_text, SUCCESS_PAIR)>>
        ELSE IF common # {}
        THEN << addstr(0, slice(line_text, 0, start_idx), 0),
                addstr(start_idx, slice(line_text, start_idx, end_idx),
                       KEYWORD_PAIR),
                addstr(end_idx, slice(line_text, end_idx, Len(line_text)), 0) >>
        ELSE <<>>

\* CursesUI.highlight_line(line_num, line_text, start_pos)
HighlightLine ==
    \E line_text \in HlLines :
        /\ hl_text' = line_text
        /\ hl_result' = highlight_line(line_text)
        /\ UNCHANGED hl_pattern
        /\ HighlighterCall("highlight_line", 0, "None")

HighlightNext ==
    \/ NewPattern
    \/ FindMatches

HighlightSpec == HighlightInit /\ [][HighlightNext]_vars

\* The lines of a block drawn one after the other by draw_block_view
LineNext == HighlightLine

LineSpec == HighlightInit /\ [][LineNext]_vars

----------------------------------------------------------------------------
(* ui/curses_ui.py: the preset keyword list and the ":addkw" command.      *)

\* The search terms entered: "", "ab", "Ab", "AB", "b", "B", U+0130 and
\* "i" followed by U+0307
KeywordTerms ==
    { <<>>, <<"a", "b">>, <<"A", "b">>, <<"A", "B">>, <<"b">>, <<"B">>,
      <<"U0130">>, <<"i", "U0307">> }

\* The lists read from keywords.json by _load_keywords: none, ["AB"] and
\* ["b", "ab"]
KeywordLists == { <<>>, << <<"A", "B">> >>, << <<"b">>, <<"a", "b">> >> }

\* CursesUI.add_current_search_to_keywords compared the entries with the
\* term as they are written.
add_current_search_to_keywords_exact(s, keywords, saved) ==
    IF s.search_term = <<>>
    THEN [s |-> s, keywords |-> keywords, ret |-> "False"]
    ELSE IF \E k \in 1..Len(keywords) : keywords[k] = s.search_term
    THEN [s |-> set_message(s, "keyword_exists", FALSE),
          keywords |-> keywords, ret |-> "False"]
    ELSE IF saved
    THEN [s |-> set_message(s, "keyword_added", FALSE),
          keywords |-> Append(keywords, s.search_term), ret |-> "True"]
    ELSE [s |-> set_message(s, "save_failed", TRUE),
          keywords |-> Append(keywords, s.search_term), ret |-> "False"]

\* CursesUI.add_current_search_to_keywords; `saved` is whether save_keywords
\* could write keywords.json.
add_current_search_to_keywords(s, keywords, saved) ==
    IF s.search_term = <<>>
    THEN [s |-> s, keywords |-> keywords, ret |-> "False"]
    ELSE IF \E k \in 1..Len(keywords) :
                str_lower(keywords[k]) = str_lower(s.search_term)
    THEN [s |-> set_message(s, "keyword_exists", FALSE),
          keywords |-> keywords, ret |-> "False"]
    ELSE IF saved
    THEN [s |-> set_message(s, "keyword_added", FALSE),
          keywords |-> Append(keywords, s.search_term), ret |-> "True"]
    ELSE [s |-> set_message(s, "save_failed", TRUE),
          keywords |-> Append(keywords, s.search_term), ret |-> "False"]

\* CursesUI.execute_command, ":addkw"
addkw(s, keywords, saved) ==
    LET r == add_current_search_to_keywords(s, keywords, saved)
    IN  IF r.ret = "True"
        THEN [r EXCEPT !.s = set_message(r.s, "keyword_added", FALSE)]
        ELSE [r EXCEPT !.s = set_message(r.s, "cannot_add_keyword", TRUE)]

\* CursesUI.__init__: the viewer constructed without a file and the
\* keywords loaded
KeywordInit ==
    \E keywords \in KeywordLists :
        LET s == Constructed(DEFAULT_SEPARATORS["grad"])
        IN  /\ content = s.content
            /\ separator = s.separator
            /\ blocks = s.blocks
            /\ current_block_index = s.current_block_index
            /\ filtered_indices = s.filtered_indices
            /\ current_filtered_index = s.current_filtered_index
            /\ filter_mode = s.filter_mode
            /\ search_term = s.search_term
            /\ top_line = s.top_line
            /\ message = s.message
            /\ error = s.error
            /\ focus_keyword = s.focus_keyword
            /\ focus_offset = s.focus_offset
            /\ full_view_mode = s.full_view_mode
            /\ show_line_numbers = s.show_line_numbers
            /\ highlight_enabled = s.highlight_enabled
            /\ lastOp = "init"
            /\ lastArg = 0
            /\ ret = "None"
            /\ search_depth = 0
            /\ search_moves = 0
            /\ preset_keywords = keywords
            /\ hl_pattern = NoPattern
            /\ hl_text = NoText
            /\ hl_result = NoResult
            /\ command_buffer = <<>>
            /\ completion_matches = <<>>
            /\ completion_index = 0
            /\ completion_prefix = <<>>

\* LogViewer.set_search_term with a term typed at the search prompt
EnterSearchTerm ==
    \E term \in KeywordTerms :
        Becomes(set_search_term(Self, term), "set_search_term", 0)

\* The ":addkw" command
AddKeyword ==
    \E saved \in BOOLEAN :
        LET r == addkw(Self, preset_keywords, saved)
        IN  /\ preset_keywords' = r.keywords
            /\ message' = r.s.message
            /\ error' = r.s.error
            /\ lastOp' = "add_current_search_to_keywords"
            /\ lastArg' = 0
            /\ ret' = r.ret
            /\ UNCHANGED <<content, separator, blocks, current_block_index,
                           filtered_indices, current_filtered_index,
                           filter_mode, search_term, top_line, focus_keyword,
                           focus_offset, search_depth, search_moves,
                           hl_pattern, hl_text, hl_result, full_view_mode,
                           show_line_numbers, highlight_enabled,
                           command_buffer, completion_matches,
                           completion_index, completion_prefix>>

KeywordNext ==
    \/ EnterSearchTerm
    \/ AddKeyword

KeywordSpec == KeywordInit /\ [][KeywordNext]_vars

----------------------------------------------------------------------------
(* ui/curses_ui.py: the command line of _process_command_input and the Tab *)
(* completion of a search term from the preset keywords.                   *)

\* At most MaxPrefixLen characters are typed after the command character.
MaxPrefixLen == 2

\* At most MaxTabs Tab keys are pressed in a row.
MaxTabs == 3

\* The characters typed
TypedChars == {"a", "B", "c"}

\* The keywords read from keywords.json: "ab", "Abc", "b" and "cab"
CompletionKeywords ==
    << <<"a", "b">>, <<"A", "b", "c">>, <<"b">>, <<"c", "a", "b">> >>

\* The fields of CursesUI that the command line uses
UI ==
    [command_buffer     |-> command_buffer,
     completion_matches |-> completion_matches,
     completion_index   |-> completion_index,
     completion_prefix  |-> completion_prefix,
     preset_keywords    |-> preset_keywords]

\* str.startswith
startswith(text, prefix) ==
    Len(prefix) <= Len(text) /\ SubSeq(text, 1, Len(prefix)) = prefix

\* CursesUI._find_matches
_find_matches(ui, prefix) ==
    LET prefix_lower == str_lower(prefix)
        starts(keyword) == startswith(str_lower(keyword), prefix_lower)
        contains(keyword) == str_find(str_lower(keyword), prefix_lower, 0) # 0 - 1
        matches == SelectSeq(ui.preset_keywords, starts)
    IN  IF matches = <<>>
        THEN SelectSeq(ui.preset_keywords, contains)
        ELSE matches

\* Mutant of _handle_tab_completion: the matches are computed again from the
\* text of the buffer at every Tab.
_handle_tab_completion_recomputes(ui, s) ==
    LET current_text == Tail(ui.command_buffer)
        ui1 == [ui EXCEPT !.completion_prefix = current_text,
                          !.completion_matches = _find_matches(ui, current_text),
                          !.completion_index = 0]
    IN  IF current_text = <<>>
        THEN [ui |-> ui, s |-> s]
        ELSE IF ui1.completion_matches # <<>>
        THEN [ui |-> [ui1 EXCEPT !.command_buffer =
                         <<Head(ui.command_buffer)>>
                         \o ui1.completion_matches[ui1.completion_index + 1]],
              s |-> set_message(s, "completion", FALSE)]
        ELSE [ui |-> ui1, s |-> set_message(s, "no_completion", FALSE)]

\* CursesUI._handle_tab_completion
_handle_tab_completion(ui, s) ==
    LET current_text == Tail(ui.command_buffer)
        known == \E k \in 1..Len(ui.completion_matches) :
                     str_lower(ui.completion_matches[k]) = str_lower(current_text)
        ui1 == IF \/ ui.completion_matches = <<>>
                  \/ (ui.completion_prefix # current_text /\ ~known)
               THEN [ui EXCEPT !.completion_prefix = current_text,
                               !.completion_matches =
                                   _find_matches(ui, current_text),
                               !.completion_index = 0]
               ELSE [ui EXCEPT !.completion_index =
                                   (@ + 1) % Max(1, Len(ui.completion_matches))]
    IN  IF current_text = <<>>
        THEN [ui |-> ui, s |-> s]
        ELSE IF ui1.completion_matches # <<>>
        THEN [ui |-> [ui1 EXCEPT !.command_buffer =
                         <<Head(ui.command_buffer)>>
                         \o ui1.completion_matches[ui1.completion_index + 1]],
              s |-> set_message(s, "completion", FALSE)]
        ELSE [ui |-> ui1, s |-> set_message(s, "no_completion", FALSE)]

\* The Tab key in _process_command_input: completion in a search command
\* only
tab_key(ui, s) ==
    IF Head(ui.command_buffer) \in {"/", "?"}
    THEN _handle_tab_completion(ui, s)
    ELSE [ui |-> ui, s |-> s]

\* A key of the command line has been handled; lastArg counts the Tab keys
\* pressed with no other key in between.
CommandLine(r, op, tabs) ==
    /\ command_buffer' = r.ui.command_buffer
    /\ completion_matches' = r.ui.completion_matches
    /\ completion_index' = r.ui.completion_index
    /\ completion_prefix' = r.ui.completion_prefix
    /\ message' = r.s.message
    /\ error' = r.s.error
    /\ lastOp' = op
    /\ lastArg' = tabs
    /\ ret' = "None"
    /\ UNCHANGED <<content, separator, blocks, current_block_index,
                   filtered_indices, current_filtered_index, filter_mode,
                   search_term, top_line, focus_keyword, focus_offset,
                   search_depth, search_moves, preset_keywords, hl_pattern,
                   hl_text, hl_result, full_view_mode, show_line_numbers,
                   highlight_enabled>>

\* CursesUI.__init__ with the keywords loaded, then a command started: '/'
\* (start_search), '?' (start_search_backward) or ':'
CommandInit ==
    \E command \in {"/", "?", ":"} :
        LET s == Constructed(DEFAULT_SEPARATORS["grad"])
        IN  /\ content = s.content
            /\ separator = s.separator
            /\ blocks = s.blocks
            /\ current_block_index = s.current_block_index
            /\ filtered_indices = s.filtered_indices
            /\ current_filtered_index = s.current_filtered_index
            /\ filter_mode = s.filter_mode
            /\ search_term = s.search_term
            /\ top_line = s.top_line
            /\ message = s.message
            /\ error = s.error
            /\ focus_keyword = s.focus_keyword
            /\ focus_offset = s.focus_offset
            /\ full_view_mode = s.full_view_mode
            /\ show_line_numbers = s.show_line_numbers
            /\ highlight_enabled = s.highlight_enabled
            /\ lastOp = "init"
            /\ lastArg = 0
            /\ ret = "None"
            /\ search_depth = 0
            /\ search_moves = 0
            /\ preset_keywords = CompletionKeywords
            /\ hl_pattern = NoPattern
            /\ hl_text = NoText
            /\ hl_result = NoResult
            /\ command_buffer = <<command>>
            /\ completion_matches = <<>>
            /\ completion_index = 0
            /\ completion_prefix = <<>>

\* CursesUI.start_search / start_search_backward
StartSearch ==
    \E command \in {"/", "?"} :
        CommandLine([ui |-> [UI EXCEPT !.command_buffer = <<command>>,
                                      !.completion_matches = <<>>,
                                      !.completion_index = 0],
                     s |-> Self], "start_search", 0)

\* A printable character
TypeChar ==
    \E c \in TypedChars :
        /\ Len(command_buffer) <= MaxPrefixLen
        /\ CommandLine([ui |-> [UI EXCEPT !.command_buffer = Append(@, c),
                                          !.completion_matches = <<>>,
                                          !.completion_index = 0],
                        s |-> Self], "type_char", 0)

\* Backspace with more than the command character in the buffer
Backspace ==
    /\ Len(command_buffer) > 1
    /\ CommandLine([ui |-> [UI EXCEPT !.command_buffer =
                                          SubSeq(@, 1, Len(@) - 1),
                                      !.completion_matches = <<>>,
                                      !.completion_index = 0],
                    s |-> Self], "backspace", 0)

\* The Tab key
Tab ==
    LET tabs == IF lastOp = "tab" THEN lastArg ELSE 0
    IN  /\ tabs < MaxTabs
        /\ CommandLine(tab_key(UI, Self), "tab", tabs + 1)

CommandNext ==
    \/ StartSearch
    \/ TypeChar
    \/ Backspace
    \/ Tab

CommandSpec == CommandInit /\ [][CommandNext]_vars

----------------------------------------------------------------------------
(* The claims.  What a claim says of "the call" is stated of the step that *)
(* makes it: lastOp' names the method, ret' its result, the unprimed       *)
(* variables are the state before and the primed ones the state after.     *)

ActualIndex == get_actual_index(Self)

BlockCount == get_block_count(Self)

\* Filtered and Unfiltered, the two states of the navigation machine
Filtered == filter_mode /\ filtered_indices # <<>>
Unfiltered == ~filter_mode

\* The lines of block b (an absolute 0-based index)
LinesOf(b) == Split(At(blocks, b))

\* No block contains the search term
NoBlockMatches ==
    \A b \in 0..(Len(blocks) - 1) : ~Matches(search_term, At(blocks, b))

\* C1: with a document loaded, actualIndex() is a member of filteredIndices
\* when filterMode is true and equals currentBlockIndex when it is false.
C1_ActualIndexInActiveSpace ==
    blocks # <<>> =>
        IF filter_mode
        THEN \E i \in 1..Len(filtered_indices) : filtered_indices[i] = ActualIndex
        ELSE ActualIndex = current_block_index

\* The current position is the last (first) one of the active index space.
AtLastPosition ==
    /\ blocks # <<>>
    /\ \/ Filtered /\ current_filtered_index = Len(filtered_indices) - 1
       \/ Unfiltered /\ current_block_index = Len(blocks) - 1

AtFirstPosition ==
    /\ blocks # <<>>
    /\ \/ Filtered /\ current_filtered_index = 0
       \/ Unfiltered /\ current_block_index = 0

\* C2: next_block at the last reachable position and prev_block at the first
\* return failure and leave currentBlockIndex, currentFilteredIndex and
\* topLine unchanged: no wraparound.
C2_NoWraparound ==
    [][(\/ lastOp' = "next_block" /\ AtLastPosition
        \/ lastOp' = "prev_block" /\ AtFirstPosition)
       => /\ ret' = "False"
          /\ UNCHANGED <<current_block_index, current_filtered_index, top_line>>
      ]_vars

\* next_block has failed at the last of several filtered blocks, or
\* prev_block at the first of them, scrolled down: neither the position nor
\* the scroll offset wrapped.
C2_Witness ==
    /\ ret = "False"
    /\ Filtered
    /\ Len(filtered_indices) >= 2
    /\ top_line > 0
    /\ \/ /\ lastOp = "next_block"
          /\ current_filtered_index = Len(filtered_indices) - 1
       \/ /\ lastOp = "prev_block"
          /\ current_filtered_index = 0
          /\ current_block_index > 0

\* The call is goto_block(n) with n valid: 1 <= n <= blockCount
ValidGoto == lastOp' = "goto_block" /\ 1 <= lastArg' /\ lastArg' <= BlockCount

\* C3 as stated: for any valid n, goto_block(n) succeeds and immediately
\* afterwards actualIndex() + 1 = n.
C3_GotoActualIndex_Original ==
    [][ValidGoto => ret' = "True" /\ ActualIndex' + 1 = lastArg']_vars

\* C3 amended: for any valid n, goto_block(n) succeeds and afterwards the
\* position in the active index space is n - 1: in the Unfiltered state
\* actualIndex() + 1 = n, in the Filtered state currentFilteredIndex + 1 = n
\* and actualIndex() = filteredIndices[n - 1].
C3_GotoPosition ==
    [][ValidGoto =>
        /\ ret' = "True"
        /\ IF Filtered
           THEN /\ current_filtered_index' + 1 = lastArg'
                /\ ActualIndex' = At(filtered_indices, lastArg' - 1)
           ELSE ActualIndex' + 1 = lastArg'
      ]_vars

\* goto_block(n) has succeeded in the Filtered state on a block whose
\* absolute number is not n.
C3_Witness ==
    /\ lastOp = "goto_block"
    /\ ret = "True"
    /\ Filtered
    /\ current_filtered_index + 1 = lastArg
    /\ ActualIndex + 1 # lastArg

\* The call is filter_blocks with a non-empty search term that no block
\* contains.
FailingFilter ==
    /\ lastOp' = "filter_blocks"
    /\ search_term # <<>>
    /\ NoBlockMatches

\* C4 as stated: from any reachable state such a filter_blocks returns
\* failure, and afterwards filterMode is false and get_block_count() is
\* len(blocks).
C4_FailedFilter_Original ==
    [][FailingFilter =>
        /\ ret' = "False"
        /\ ~filter_mode'
        /\ BlockCount' = Len(blocks')
      ]_vars

\* C4 amended: such a filter_blocks returns failure and leaves filterMode as
\* it was; from a state in which filterMode is false it is false afterwards
\* and get_block_count() is len(blocks).
C4_FailedFilter ==
    [][FailingFilter =>
        /\ ret' = "False"
        /\ filter_mode' = filter_mode
        /\ ~filter_mode => (~filter_mode' /\ BlockCount' = Len(blocks'))
      ]_vars

\* filter_blocks has failed on a loaded document with no filter active.
C4_Witness ==
    /\ lastOp = "filter_blocks"
    /\ ret = "False"
    /\ Len(blocks) >= 2
    /\ search_term # <<>>
    /\ NoBlockMatches
    /\ ~filter_mode
    /\ BlockCount = Len(blocks)

\* C5: a failed filter_blocks (no block matches the search term) leaves
\* filterMode, filteredIndices, currentFilteredIndex, currentBlockIndex,
\* topLine and searchTerm as they were.
C5_FailedFilterNoOp ==
    [][(FailingFilter /\ blocks # <<>>) =>
        UNCHANGED <<filter_mode, filtered_indices, current_filtered_index,
                    current_block_index, top_line, search_term>>
      ]_vars

\* The reachable blocks from the current one on, in document order
\* (absolute indices), and back from the current one, in reverse order.
ForwardBlocks ==
    IF Filtered
    THEN [i \in 1..(Len(filtered_indices) - current_filtered_index) |->
             filtered_indices[current_filtered_index + i]]
    ELSE IF Unfiltered
    THEN [i \in 1..(Len(blocks) - current_block_index) |->
             current_block_index + i - 1]
    ELSE <<current_block_index>>

BackwardBlocks ==
    IF Filtered
    THEN [i \in 1..(current_filtered_index + 1) |->
             filtered_indices[current_filtered_index + 2 - i]]
    ELSE IF Unfiltered
    THEN [i \in 1..(current_block_index + 1) |-> current_block_index + 1 - i]
    ELSE <<current_block_index>>

\* The lines lo..hi of block b that contain the search term
MatchesIn(b, lo, hi) ==
    { i \in lo..hi : Matches(search_term, At(LinesOf(b), i)) }

\* The matches after the current position in the p-th block of
\* ForwardBlocks: after topLine in the current block, from line 0 in a later
\* one.
ForwardMatches(p) ==
    MatchesIn(ForwardBlocks[p],
              IF p = 1 THEN top_line + 1 ELSE 0,
              Len(LinesOf(ForwardBlocks[p])) - 1)

HasNextMatch ==
    \E p \in 1..Len(ForwardBlocks) : ForwardMatches(p) # {}

NextMatchPos ==
    CHOOSE p \in 1..Len(ForwardBlocks) :
        /\ ForwardMatches(p) # {}
        /\ \A q \in 1..(p - 1) : ForwardMatches(q) = {}

\* The matches before the current position in the p-th block of
\* BackwardBlocks: before topLine in the current block, up to and including
\* the last line in an earlier one.
BackwardMatches(p) ==
    MatchesIn(BackwardBlocks[p],
              0,
              IF p = 1 THEN top_line - 1
                       ELSE Len(LinesOf(BackwardBlocks[p])) - 1)

HasPrevMatch ==
    \E p \in 1..Len(BackwardBlocks) : BackwardMatches(p) # {}

PrevMatchPos ==
    CHOOSE p \in 1..Len(BackwardBlocks) :
        /\ BackwardMatches(p) # {}
        /\ \A q \in 1..(p - 1) : BackwardMatches(q) = {}

\* C6: search_next moves to the nearest following match in document order
\* over the reachable blocks: when the first match after the start position
\* is line L of reachable block k (line 0 of a later block included), it
\* returns success with actualIndex = k and topLine = L.
C6_SearchNextNearest ==
    [][(lastOp' = "search_next" /\ search_term # <<>> /\ HasNextMatch) =>
        /\ ret' = "True"
        /\ ActualIndex' = ForwardBlocks[NextMatchPos]
        /\ top_line' = SetMin(ForwardMatches(NextMatchPos))
      ]_vars

\* C7: search_next with no match after the current position in the current
\* block or any later reachable block returns failure and leaves topLine at
\* the value it had before the call.
C7_SearchNextExhausted ==
    [][(lastOp' = "search_next" /\ search_term # <<>> /\ blocks # <<>>
            /\ ~HasNextMatch) =>
        /\ ret' = "False"
        /\ top_line' = top_line
      ]_vars

\* C8: search_prev mirrors search_next: it moves to the nearest preceding
\* match, the greatest matching line before topLine in the current block or
\* else the greatest matching line, the last line included, of the nearest
\* earlier reachable block that has one; with no preceding match it reports
\* "reached first match" and returns failure.
C8_SearchPrevMirror ==
    [][(lastOp' = "search_prev" /\ search_term # <<>> /\ blocks # <<>>) =>
        IF HasPrevMatch
        THEN /\ ret' = "True"
             /\ ActualIndex' = BackwardBlocks[PrevMatchPos]
             /\ top_line' = SetMax(BackwardMatches(PrevMatchPos))
        ELSE /\ ret' = "False"
             /\ message' = "first_match"
      ]_vars

\* C9: with blocks non-empty, currentBlockIndex is in [0, len(blocks) - 1],
\* and when filterMode is true and filteredIndices is non-empty,
\* currentFilteredIndex is in [0, len(filteredIndices) - 1].
C9_IndicesInBounds ==
    blocks # <<>> =>
        /\ current_block_index \in 0..(Len(blocks) - 1)
        /\ (filter_mode /\ filtered_indices # <<>>) =>
               current_filtered_index \in 0..(Len(filtered_indices) - 1)

\* A reparse has left fewer blocks than the file has under the grad
\* separator, and the position is on one of them.
C9_Witness ==
    /\ lastOp = "reparse_with_separator"
    /\ ret = "True"
    /\ Len(blocks) = 1
    /\ Len(parse(content, DEFAULT_SEPARATORS["grad"], <<>>)) > 1
    /\ current_block_index = 0

\* C10: filteredIndices is a strictly ascending sequence of indices in
\* [0, len(blocks)).
C10_FilteredIndicesAscending ==
    /\ \A i \in 1..Len(filtered_indices) :
           filtered_indices[i] \in 0..(Len(blocks) - 1)
    /\ \A i, j \in 1..Len(filtered_indices) :
           i < j => filtered_indices[i] < filtered_indices[j]

\* A filter has selected several blocks, not the first one among them.
C10_Witness ==
    /\ lastOp = "filter_blocks"
    /\ ret = "True"
    /\ Len(filtered_indices) >= 2
    /\ filtered_indices[1] > 0
    /\ Len(filtered_indices) < Len(blocks)

\* The number of lines of the active block, the one at actualIndex()
ActiveLineCount == Len(LinesOf(ActualIndex))

\* C11: with blocks non-empty, topLine is within [0, lineCount - 1] of the
\* active block.
C11_TopLineInBlock ==
    blocks # <<>> =>
        /\ ActualIndex \in 0..(Len(blocks) - 1)
        /\ top_line \in 0..(ActiveLineCount - 1)

\* search_prev has gone back to an earlier block, entered at its last line,
\* and has stopped on a line of it other than the first.
C11_Witness ==
    /\ lastOp = "search_prev"
    /\ blocks # <<>>
    /\ ActualIndex < Len(blocks) - 1
    /\ top_line > 0
    /\ ActiveLineCount > top_line

\* C12: after every load_file that returns success (a file with empty
\* content included) and after every successful reparse_with_separator the
\* block sequence is non-empty.
C12_BlocksNonEmptyOnceLoaded ==
    (lastOp \in {"load_file", "reparse_with_separator"} /\ ret = "True")
        => blocks # <<>>

\* C13: focusOffset is in [1, 30] in every state of a session, after every
\* operation, the renderer's window setup on a resize and its focus-toggle
\* and filter commands included, for any terminal height.
C13_FocusOffsetInRange ==
    focus_offset \in MIN_FOCUS_OFFSET..MAX_FOCUS_OFFSET

\* C14: from the initial ViewerState, whose focusOffset is in [1, 30],
\* increase_focus_offset and decrease_focus_offset keep it there: increase
\* at 30 and decrease at 1 leave it unchanged, otherwise a call changes it
\* by exactly 1.
C14_FocusOffsetSteps ==
    /\ focus_offset \in MIN_FOCUS_OFFSET..MAX_FOCUS_OFFSET
    /\ [][(focus_offset \in MIN_FOCUS_OFFSET..MAX_FOCUS_OFFSET) =>
            /\ lastOp' = "increase_focus_offset" =>
                   focus_offset' = IF focus_offset = MAX_FOCUS_OFFSET
                                   THEN focus_offset
                                   ELSE focus_offset + 1
            /\ lastOp' = "decrease_focus_offset" =>
                   focus_offset' = IF focus_offset = MIN_FOCUS_OFFSET
                                   THEN focus_offset
                                   ELSE focus_offset - 1
         ]_vars

\* increase_focus_offset has been called at the upper limit: the offset is
\* 30 and the message is not the one a change of the offset leaves.
C14_Witness ==
    /\ lastOp = "increase_focus_offset"
    /\ focus_offset = MAX_FOCUS_OFFSET
    /\ message # "focus_offset"

\* C15: every successful load_file and every successful
\* reparse_with_separator resets the session to currentBlockIndex = 0,
\* filterMode = false, filteredIndices = [0 .. len(blocks) - 1],
\* currentFilteredIndex = 0 and topLine = 0, and focusKeyword and
\* focusOffset keep the values they had before the call.
C15_ResetOnLoadAndReparse ==
    [][(lastOp' \in {"load_file", "reparse_with_separator"} /\ ret' = "True")
       => /\ current_block_index' = 0
          /\ filter_mode' = FALSE
          /\ filtered_indices' = Range(Len(blocks'))
          /\ current_filtered_index' = 0
          /\ top_line' = 0
          /\ UNCHANGED <<focus_keyword, focus_offset>>
      ]_vars

\* A file of several blocks has been loaded in a session whose keyword
\* focus is on and whose focus offset was changed by the user.
C15_Witness ==
    /\ lastOp = "load_file"
    /\ ret = "True"
    /\ Len(blocks) >= 2
    /\ filtered_indices = Range(Len(blocks))
    /\ focus_keyword
    /\ focus_offset = MaxOffsetExplored
    /\ search_term # <<>>

\* The start of the leftmost occurrence of sep in text (1-based)
Leftmost(sep, text) ==
    CHOOSE k \in 1..Len(text) :
        /\ SubSeq(text, k, k + Len(sep) - 1) = sep
        /\ \A j \in 1..(k - 1) : SubSeq(text, j, j + Len(sep) - 1) # sep

\* The number of non-overlapping occurrences of sep in text, leftmost first
RECURSIVE Occurrences(_, _)
Occurrences(sep, text) ==
    IF ~In(sep, text)
    THEN 0
    ELSE 1 + Occurrences(sep, SubSeq(text, Leftmost(sep, text) + Len(sep),
                                     Len(text)))

\* The concatenation of a sequence of texts
RECURSIVE Concat(_)
Concat(texts) ==
    IF texts = <<>> THEN <<>> ELSE Head(texts) \o Concat(Tail(texts))

MatchingBlockSet ==
    { b \in 0..(Len(blocks) - 1) : Matches(search_term, At(blocks, b)) }

MatchingBlocks ==
    CHOOSE seq \in [1..Cardinality(MatchingBlockSet) -> MatchingBlockSet] :
        \A i, j \in 1..Cardinality(MatchingBlockSet) :
            i < j => seq[i] < seq[j]

\* The keyword-focus position of block b: focusOffset lines above its first
\* matching line, within the block
FocusPosition(b) ==
    LET m == SetMin(MatchesIn(b, 0, Len(LinesOf(b)) - 1))
    IN  Min(Max(0, m - focus_offset), Len(LinesOf(b)) - 1)

\* C17: filter_blocks with a non-empty searchTerm that matches at least one
\* block returns success; afterwards filterMode is true, filteredIndices is
\* the ascending list of the indices of the blocks that contain searchTerm
\* case-insensitively, currentFilteredIndex is 0, currentBlockIndex is
\* filteredIndices[0], and topLine is 0 when focusKeyword is off and the
\* keyword-focus position of that block when it is on.
C17_FilterSuccess ==
    [][(lastOp' = "filter_blocks" /\ search_term # <<>> /\ MatchingBlockSet # {})
       => /\ ret' = "True"
          /\ filter_mode'
          /\ filtered_indices' = MatchingBlocks
          /\ current_filtered_index' = 0
          /\ current_block_index' = MatchingBlocks[1]
          /\ top_line' = IF focus_keyword
                         THEN FocusPosition(MatchingBlocks[1])
                         ELSE 0
      ]_vars

\* A filter has succeeded with the keyword focus on, on a first matching
\* block that is not block 0 and whose first match is below the focus
\* offset: the top line is not 0.
C17_Witness ==
    /\ lastOp = "filter_blocks"
    /\ ret = "True"
    /\ focus_keyword
    /\ filter_mode
    /\ current_block_index > 0
    /\ current_block_index = filtered_indices[1]
    /\ top_line > 0

\* C18: clear_filter sets filterMode to false and filteredIndices to the
\* full range [0, len(blocks)), and leaves searchTerm unchanged, from any
\* state.
C18_ClearFilter ==
    [][lastOp' = "clear_filter"
       => /\ filter_mode' = FALSE
          /\ filtered_indices' = Range(Len(blocks))
          /\ UNCHANGED <<search_term, blocks>>
      ]_vars

\* The filter has been cleared after a filter attempt that matched no
\* block: the search term is still the one that matches nothing and the
\* filtered indices are all the blocks again.
C18_Witness ==
    /\ lastOp = "clear_filter"
    /\ error
    /\ message = "filter_cleared"
    /\ search_term # <<>>
    /\ NoBlockMatches
    /\ Len(blocks) >= 2
    /\ ~filter_mode
    /\ filtered_indices = Range(Len(blocks))

\* C19: with a document loaded, for every n outside [1, blockCount] of the
\* active state (0 and negative n included) goto_block(n) returns failure
\* without raising, reports a range error (the message is set and the error
\* flag is true) and leaves currentBlockIndex, currentFilteredIndex and
\* topLine unchanged.
C19_GotoOutOfRange ==
    [][(lastOp' = "goto_block" /\ blocks # <<>>
            /\ (lastArg' < 1 \/ lastArg' > BlockCount))
       => /\ ret' = "False"
          /\ message' = "range_error"
          /\ error' = TRUE
          /\ UNCHANGED <<current_block_index, current_filtered_index, top_line>>
      ]_vars

\* The lines of the active block that contain the search term
ActiveMatches == MatchesIn(ActualIndex, 0, ActiveLineCount - 1)

\* C20: the keyword-focus relocation on the current block with a non-empty
\* searchTerm: if no line of the block contains searchTerm it returns
\* failure and leaves topLine unchanged; otherwise, with m the lowest
\* matching line, it sets topLine = min(max(0, m - focusOffset),
\* lineCount - 1), so that topLine <= m <= topLine + focusOffset.
C20_KeywordFocus ==
    [][(lastOp' = "focus_on_keyword" /\ search_term # <<>> /\ blocks # <<>>)
       => IF ActiveMatches = {}
          THEN /\ ret' = "False"
               /\ top_line' = top_line
          ELSE /\ ret' = "True"
               /\ top_line' = Min(Max(0, SetMin(ActiveMatches) - focus_offset),
                                  ActiveLineCount - 1)
               /\ top_line' <= SetMin(ActiveMatches)
               /\ SetMin(ActiveMatches) <= top_line' + focus_offset
      ]_vars

\* The relocation has put the top line focusOffset lines above the first
\* match of the block, below line 0.
C20_Witness ==
    /\ lastOp = "focus_on_keyword"
    /\ ret = "True"
    /\ search_term # <<>>
    /\ top_line > 0
    /\ ActiveMatches # {}
    /\ top_line + focus_offset = SetMin(ActiveMatches)

\* C21: an Escape in the main loop clears the highest-priority transient
\* state only: with filterMode true it clears the filter and leaves
\* searchTerm unchanged; otherwise, with searchTerm non-empty, it sets
\* searchTerm to empty; otherwise it changes nothing.  From a filtered state
\* with a search term the first Escape leaves the term in place.
C21_EscapeClearsOneLevel ==
    [][lastOp' = "escape" =>
        IF filter_mode
        THEN /\ filter_mode' = FALSE
             /\ filtered_indices' = Range(Len(blocks))
             /\ search_term' = search_term
        ELSE IF search_term # <<>>
        THEN /\ search_term' = <<>>
             /\ UNCHANGED <<filter_mode, filtered_indices>>
        ELSE UNCHANGED <<filter_mode, filtered_indices, search_term>>
      ]_vars

\* The first Escape of a filtered session: the filter is cleared and the
\* search term, which had selected some of the blocks, is still set.
C21_Witness ==
    /\ lastOp = "escape"
    /\ ~filter_mode
    /\ message = "filter_cleared"
    /\ search_term # <<>>
    /\ MatchingBlockSet # {}
    /\ filtered_indices = Range(Len(blocks))

\* The number of reachable blocks after (before) the current position
ReachableAfter == IF blocks = <<>> THEN 0 ELSE Len(ForwardBlocks) - 1
ReachableBefore == IF blocks = <<>> THEN 0 ELSE Len(BackwardBlocks) - 1

\* C22: every search_next and search_prev invocation terminates: the
\* number of block moves within one invocation is at most the number of
\* reachable blocks after (before) the starting position, hence at most the
\* block count, and each nested invocation follows one move.
C22_SearchMovesBounded ==
    [][/\ lastOp' = "search_next" =>
            /\ search_moves' <= ReachableAfter
            /\ search_moves' <= BlockCount
            /\ search_depth' = search_moves' + 1
       /\ lastOp' = "search_prev" =>
            /\ search_moves' <= ReachableBefore
            /\ search_moves' <= BlockCount
            /\ search_depth' = search_moves' + 1
      ]_vars

\* A search_next has gone through all three blocks of the file, two moves,
\* without finding a match.
C22_Witness ==
    /\ lastOp = "search_next"
    /\ ret = "False"
    /\ search_moves = Len(blocks) - 1
    /\ Len(blocks) > 2
    /\ ~filter_mode

\* C23: the cross-block scan of search_next and search_prev is an iterative
\* loop: the nesting depth of active search invocations stays at 1 however
\* many blocks are traversed.
C23_SearchDepthOne ==
    (lastOp \in {"search_next", "search_prev"}) => search_depth = 1

\* The elements of a finite set of numbers, in ascending order
RECURSIVE Ascending(_)
Ascending(S) ==
    IF S = {}
    THEN <<>>
    ELSE <<SetMin(S)>> \o Ascending(S \ {SetMin(S)})

\* The constructor call of the last step asked for a regex that re.compile
\* rejects.
CompileFails ==
    /\ lastOp = "HighlightPattern"
    /\ lastArg.is_regex
    /\ re_compile(lastArg.pattern, "0").raised # "None"

\* C24: a HighlightPattern constructed as a regex whose pattern fails to
\* compile is constructed without raising, and is a literal pattern of the
\* same text: is_regex false and no compiled regex.
C24_InvalidRegexIsLiteral ==
    CompileFails =>
        /\ ret = "None"
        /\ hl_pattern.pattern = lastArg.pattern
        /\ ~hl_pattern.is_regex
        /\ hl_pattern.regex = NoRegex

\* The positions at which pattern p occurs in text t, compared without case
\* unless case_sensitive, as spans (i, i + len(p)) in ascending order
LiteralSpans(t, p, case_sensitive) ==
    LET same(a, b) == IF case_sensitive THEN a = b
                      ELSE str_lower(a) = str_lower(b)
        at == { i \in 0..(Len(t) - Len(p)) :
                    same(SubSeq(t, i + 1, i + Len(p)), p) }
        starts == Ascending(at)
    IN  [k \in 1..Len(starts) |-> <<starts[k], starts[k] + Len(p)>>]

\* C26: for a literal pattern p and a text t, find_matches returns exactly
\* the spans (i, i + len(p)) of the positions i at which p occurs in t, in
\* ascending order, overlapping occurrences included.
C26_LiteralSpans ==
    (lastOp = "find_matches" /\ ~hl_pattern.is_regex) =>
        hl_result = LiteralSpans(hl_text, hl_pattern.pattern,
                                 hl_pattern.case_sensitive)

\* The positions at which keyword occurs in line, compared without case
OccurrencesIn(keyword, line) ==
    { i \in 0..(Len(line) - Len(keyword)) :
          str_lower(SubSeq(line, i + 1, i + Len(keyword))) = str_lower(keyword) }

\* The four categories of line highlighting in their order of priority
Categories ==
    << [keywords |-> error_keywords, color_pair |-> ERROR_PAIR,
        whole_line |-> TRUE],
       [keywords |-> warning_keywords, color_pair |-> WARNING_PAIR,
        whole_line |-> TRUE],
       [keywords |-> success_keywords, color_pair |-> SUCCESS_PAIR,
        whole_line |-> TRUE],
       [keywords |-> COMMON_KEYWORDS, color_pair |-> KEYWORD_PAIR,
        whole_line |-> FALSE] >>

\* The categories of which some keyword occurs in line
CategoriesOf(line) ==
    { c \in 1..Len(Categories) :
          \E k \in 1..Len(Categories[c].keywords) :
              OccurrencesIn(Categories[c].keywords[k], line) # {} }

\* The addstr calls of the last highlight_line that give a colour pair
Styled == { n \in 1..Len(hl_result) : hl_result[n].color_pair # 0 }

\* C25: highlight_line gives a line the style of the first category, in the
\* order error, warning, success, generic keyword, of which some keyword
\* occurs in the line without regard to case, and no other style; the three
\* first styles cover the whole line, the generic one only the first
\* occurrence of a generic keyword.
C25_LineStyle ==
    lastOp = "highlight_line" =>
        IF CategoriesOf(hl_text) = {}
        THEN Styled = {}
        ELSE LET category == Categories[SetMin(CategoriesOf(hl_text))]
             IN  \E n \in 1..Len(hl_result) :
                     /\ Styled = {n}
                     /\ hl_result[n].color_pair = category.color_pair
                     /\ IF category.whole_line
                        THEN /\ hl_result[n].pos = 0
                             /\ hl_result[n].text = hl_text
                        ELSE \E k \in 1..Len(COMMON_KEYWORDS) :
                                 LET at == OccurrencesIn(COMMON_KEYWORDS[k],
                                                         hl_text)
                                 IN  /\ at # {}
                                     /\ hl_result[n].pos = SetMin(at)
                                     /\ hl_result[n].text =
                                            SubSeq(hl_text, SetMin(at) + 1,
                                                   SetMin(at)
                                                   + Len(COMMON_KEYWORDS[k]))

\* No two entries of the list are equal ignoring case
UniqueIgnoringCase(keywords) ==
    \A j, k \in 1..Len(keywords) :
        str_lower(keywords[j]) = str_lower(keywords[k]) => j = k

\* The term is in the list in some letter case
PresentIgnoringCase(term, keywords) ==
    \E k \in 1..Len(keywords) : str_lower(keywords[k]) = str_lower(term)

\* C27: add_current_search_to_keywords keeps the preset keyword list free of
\* entries equal ignoring case; an empty term, or a term already present in
\* some letter case, returns failure and leaves the list unchanged; any
\* other term is appended after the entries already there.
C27_AddKeyword ==
    [][lastOp' = "add_current_search_to_keywords" =>
           /\ UniqueIgnoringCase(preset_keywords')
           /\ IF search_term = <<>>
                 \/ PresentIgnoringCase(search_term, preset_keywords)
              THEN ret' = "False" /\ preset_keywords' = preset_keywords
              ELSE preset_keywords' = Append(preset_keywords, search_term)]_vars

\* A term is refused that is in the list in another letter case only, the
\* list holding several entries.
C27_Witness ==
    /\ lastOp = "add_current_search_to_keywords"
    /\ ret = "False"
    /\ Len(preset_keywords) > 1
    /\ PresentIgnoringCase(search_term, preset_keywords)
    /\ \A k \in 1..Len(preset_keywords) : preset_keywords[k] # search_term

\* The five moves between blocks
MoveOps ==
    {"next_block", "prev_block", "first_block", "last_block", "goto_block"}

\* C28: after every successful next_block, prev_block, first_block,
\* last_block or goto_block made in the Unfiltered state, or with
\* focusKeyword off, or with an empty searchTerm, topLine is 0.
C28_MoveResetsTopLine ==
    [][(/\ lastOp' \in MoveOps
        /\ ret' = "True"
        /\ (Unfiltered \/ ~focus_keyword \/ search_term = <<>>))
       => top_line' = 0]_vars

\* A successful move in the Filtered state with a search term and the
\* keyword focus off, to a block whose first match is below line 0
C28_Witness ==
    /\ lastOp \in MoveOps
    /\ ret = "True"
    /\ Filtered
    /\ ~focus_keyword
    /\ search_term # <<>>
    /\ ActiveMatches # {}
    /\ SetMin(ActiveMatches) > 0
    /\ top_line = 0

\* C29: after every successful next_block, prev_block, first_block,
\* last_block or goto_block made in the Filtered state (filterMode true)
\* with focusKeyword on and a non-empty searchTerm, topLine is the
\* keyword-focus position of the new block, min(max(0, m - focusOffset),
\* lineCount - 1) for its lowest matching line m, or 0 if no line of it
\* matches; a move made in the Unfiltered state applies no relocation and
\* leaves topLine at 0.
C29_MoveRelocates ==
    [][(lastOp' \in MoveOps /\ ret' = "True")
       => /\ (filter_mode /\ focus_keyword /\ search_term # <<>>)
                => LET b == IF filtered_indices' # <<>>
                            THEN At(filtered_indices', current_filtered_index')
                            ELSE current_block_index'
                   IN  top_line' =
                           IF MatchesIn(b, 0, Len(LinesOf(b)) - 1) = {}
                           THEN 0
                           ELSE FocusPosition(b)
          /\ Unfiltered => top_line' = 0]_vars

\* The change of the focus offset is followed by the relocation.
FocusActive == focus_keyword /\ filter_mode /\ search_term # <<>>

\* C30: an increase_focus_offset or decrease_focus_offset that changes
\* focusOffset while focusKeyword and filterMode are true and searchTerm is
\* not empty applies the keyword-focus relocation with the new offset:
\* topLine is the keyword-focus position of the current block for the new
\* offset; when one of the three conditions is false, or the offset is at
\* its bound and does not change, topLine is unchanged.
C30_OffsetChangeRelocates ==
    [][lastOp' \in {"increase_focus_offset", "decrease_focus_offset"}
       => IF focus_offset' # focus_offset /\ FocusActive
          THEN ActiveMatches # {}
                   => top_line' = Min(Max(0, SetMin(ActiveMatches)
                                             - focus_offset'),
                                      ActiveLineCount - 1)
          ELSE top_line' = top_line]_vars

\* A change of the offset has moved the top line to the keyword-focus
\* position for the new offset.
C30_Witness ==
    /\ lastOp \in {"increase_focus_offset", "decrease_focus_offset"}
    /\ FocusActive
    /\ ActiveMatches # {}
    /\ top_line > 0
    /\ top_line = FocusPosition(ActualIndex)
    /\ top_line + focus_offset = SetMin(ActiveMatches)

\* The lines of the active block after topLine that contain the search term
MatchesBelow == MatchesIn(ActualIndex, top_line + 1, ActiveLineCount - 1)

\* C31 as stated: when the active block has a line after topLine that
\* contains searchTerm, search_next returns success, sets topLine to the
\* lowest such line and leaves the position and the filter unchanged.
C31_SearchNextInBlock_Original ==
    [][(lastOp' = "search_next" /\ blocks # <<>> /\ MatchesBelow # {})
       => /\ ret' = "True"
          /\ top_line' = SetMin(MatchesBelow)
          /\ UNCHANGED <<current_block_index, current_filtered_index,
                         filter_mode, filtered_indices>>
      ]_vars

\* C31 amended: when searchTerm is not empty and the active block has a line
\* after topLine that contains it, search_next returns success, sets topLine
\* to the lowest such line and leaves currentBlockIndex,
\* currentFilteredIndex, filterMode and filteredIndices unchanged.
C31_SearchNextInBlock ==
    [][(lastOp' = "search_next" /\ search_term # <<>> /\ blocks # <<>>
            /\ MatchesBelow # {})
       => /\ ret' = "True"
          /\ top_line' = SetMin(MatchesBelow)
          /\ UNCHANGED <<current_block_index, current_filtered_index,
                         filter_mode, filtered_indices>>
      ]_vars

\* search_next has found a line further down the block it was on, in
\* filter mode.
C31_Witness ==
    /\ lastOp = "search_next"
    /\ ret = "True"
    /\ search_depth = 1
    /\ Filtered
    /\ top_line > 1
    /\ MatchesIn(ActualIndex, top_line, top_line) # {}

\* The three display toggles
DisplayToggles == {"toggle_full_view", "toggle_line_numbers", "toggle_highlight"}

\* The step sets the message of a success.
ReportsSuccess ==
    \/ lastOp' \in {"filter_blocks", "save_current_block"} /\ ret' = "True"
    \/ lastOp' = "clear_filter"
    \/ lastOp' \in DisplayToggles

\* The step sets the message of a failure.
ReportsFailure ==
    \/ lastOp' = "filter_blocks" /\ ret' = "False"
           /\ search_term # <<>> /\ blocks # <<>>
    \/ lastOp' = "save_current_block" /\ ret' = "False"
           /\ message' \in {"no_data", "save_error"}
    \/ lastOp' = "goto_block" /\ ret' = "False" /\ blocks # <<>>
           /\ lastArg' >= 1

\* C32: isError is the severity of the last status text: after an operation
\* that sets the message, isError is true when the operation reported a
\* failure and false when it reported a success, a successful filter_blocks,
\* clear_filter, save_current_block or display toggle after a failed
\* operation included.
C32_ErrorIsSeverity ==
    [][/\ ReportsFailure => error'
       /\ ReportsSuccess => ~error']_vars

\* C33: toggle_line_numbers and toggle_highlight change their own flag and
\* the message and nothing else, topLine included; toggle_full_view changes
\* fullViewMode, the message and topLine, which becomes 0; none of the three
\* changes the position, the filter, the search term or the keyword focus.
C33_TogglesIndependent ==
    [][lastOp' \in DisplayToggles
       => /\ UNCHANGED <<content, separator, blocks, current_block_index,
                         filter_mode, filtered_indices, current_filtered_index,
                         search_term, focus_keyword, focus_offset, error>>
          /\ lastOp' = "toggle_full_view"
                => /\ full_view_mode' = ~full_view_mode
                   /\ top_line' = 0
                   /\ UNCHANGED <<show_line_numbers, highlight_enabled>>
          /\ lastOp' = "toggle_line_numbers"
                => /\ show_line_numbers' = ~show_line_numbers
                   /\ UNCHANGED <<full_view_mode, highlight_enabled, top_line>>
          /\ lastOp' = "toggle_highlight"
                => /\ highlight_enabled' = ~highlight_enabled
                   /\ UNCHANGED <<full_view_mode, show_line_numbers, top_line>>
      ]_vars

\* Line numbers have been switched off in filter mode below the top of the
\* block, with highlighting off and the full view on.
C33_Witness ==
    /\ lastOp = "toggle_line_numbers"
    /\ ~show_line_numbers
    /\ ~highlight_enabled
    /\ full_view_mode
    /\ filter_mode
    /\ top_line > 0

\* The keywords that a typed prefix matches: those it is a prefix of, else
\* those it occurs in, ignoring case, in list order.
ExpectedMatches(prefix) ==
    LET n == Len(preset_keywords)
        low(i) == str_lower(preset_keywords[i])
        p == str_lower(prefix)
        pre == { i \in 1..n : Len(p) <= Len(low(i))
                              /\ \A j \in 1..Len(p) : low(i)[j] = p[j] }
        sub == { i \in 1..n : \E d \in 0..(Len(low(i)) - Len(p)) :
                                  \A j \in 1..Len(p) : low(i)[d + j] = p[j] }
        chosen == IF pre # {} THEN pre ELSE sub
        RECURSIVE listed(_)
        listed(i) == IF i > n THEN <<>>
                     ELSE (IF i \in chosen THEN <<preset_keywords[i]>> ELSE <<>>)
                          \o listed(i + 1)
    IN  listed(1)

\* C34: in a search command ('/' or '?') with a non-empty text, the first Tab
\* after another key sets the buffer to the command character plus match 0 of
\* the k >= 1 keywords matching the typed text; every further Tab with no
\* other key in between keeps the list of matches, advances the completion
\* index by one modulo k (so that it wraps from k-1 to 0) and sets the buffer
\* to the command character plus the match at that index.
C34_TabCycles ==
    [][(/\ lastOp' = "tab"
        /\ Head(command_buffer) \in {"/", "?"}
        /\ Tail(command_buffer) # <<>>)
       => IF lastOp = "tab"
          THEN completion_matches # <<>>
               => /\ completion_matches' = completion_matches
                  /\ completion_index' =
                         (completion_index + 1) % Len(completion_matches)
                  /\ command_buffer' =
                         <<Head(command_buffer)>>
                         \o completion_matches[completion_index' + 1]
          ELSE ExpectedMatches(Tail(command_buffer)) # <<>>
               => /\ completion_matches' = ExpectedMatches(Tail(command_buffer))
                  /\ completion_index' = 0
                  /\ command_buffer' =
                         <<Head(command_buffer)>> \o completion_matches'[1]]_vars

\* Reached: the third Tab in a row over two matches has wrapped to match 0.
C34_Witness ==
    /\ lastOp = "tab"
    /\ lastArg = Len(completion_matches) + 1
    /\ Len(completion_matches) > 1
    /\ completion_index = 0
    /\ command_buffer = <<Head(command_buffer)>> \o completion_matches[1]

\* C35: in every reachable state, filter mode implies that the list of
\* filtered indices is non-empty.
C35_FilterModeHasIndices == filter_mode => filtered_indices # <<>>

\* C36: in every reachable state in filter mode with a non-empty list of
\* filtered indices, current_block_index is the filtered index at
\* current_filtered_index.
C36_PositionsAgree ==
    (filter_mode /\ filtered_indices # <<>>)
        => /\ current_filtered_index \in 0..(Len(filtered_indices) - 1)
           /\ current_block_index = At(filtered_indices, current_filtered_index)

\* Reached: a move in filter mode to a later position of the filtered list,
\* whose block is not the block of that number.
C36_Witness ==
    /\ filter_mode
    /\ lastOp \in MoveOps
    /\ ret = "True"
    /\ current_filtered_index > 0
    /\ Len(filtered_indices) < Len(blocks)
    /\ current_block_index = At(filtered_indices, current_filtered_index)
    /\ current_block_index # current_filtered_index

\* C37: clear_filter keeps the block displayed and the top line: the actual
\* index after the call is the actual index before it, and top_line is
\* unchanged.
C37_ClearFilterKeepsBlock ==
    [][lastOp' = "clear_filter"
       => /\ (IF filter_mode' /\ filtered_indices' # <<>>
              THEN At(filtered_indices', current_filtered_index')
              ELSE current_block_index') = ActualIndex
          /\ top_line' = top_line]_vars

\* Reached: clear_filter called in filter mode on a block other than the
\* first, scrolled down.
C37_Witness ==
    /\ lastOp = "clear_filter"
    /\ ~filter_mode
    /\ current_block_index > 0
    /\ current_filtered_index # current_block_index
    /\ top_line > 0

\* C38: a search_next or search_prev call that returns failure leaves the
\* displayed block unchanged: the actual index, current_block_index and
\* current_filtered_index have the values they had before the call.
C38_FailedSearchKeepsBlock ==
    [][(lastOp' \in {"search_next", "search_prev"} /\ ret' = "False")
       => /\ (IF filter_mode' /\ filtered_indices' # <<>>
              THEN At(filtered_indices', current_filtered_index')
              ELSE current_block_index') = ActualIndex
          /\ current_block_index' = current_block_index
          /\ current_filtered_index' = current_filtered_index]_vars

\* C39: after every load_file or reparse_with_separator that returns
\* success, the blocks concatenated in order are exactly the current
\* content, also when the content loaded is empty.
C39_BlocksPartitionContent ==
    (lastOp \in {"load_file", "reparse_with_separator"} /\ ret = "True")
        => Concat(blocks) = content

====
